---- MODULE Spec2Model ----
(***************************************************************************)
(* DeFi credit scoring: the feature extractor (src/feature_engineering.py) *)
(* and the scorer (src/credit_scorer.py) as state machines.                *)
(*                                                                         *)
(* Numbers.  TLC's integers have 32 bits, so Python's floats are held in   *)
(* fixed point: features in 1/SCALE units, base scores in 1/PSCALE points. *)
(* The risk multipliers, the percentiles and the final rescale are exact:  *)
(* a credit score is a fraction [n, d], d > 0, of hundreds of points.      *)
(* NaN and Inf are values of their own (see the Float section).            *)
(***************************************************************************)
EXTENDS Integers, Sequences, FiniteSets, TLC

VARIABLES
    pc,                 \* position of the running call
    args,               \* arguments of the function under check
    loc,                \* its locals and its return value
    df,                 \* the caller's transaction table
    features_df,        \* FeatureEngineering.extract_features' result
    scores_df,          \* the score table built by the scoring stages
    scorer,             \* the DeFiCreditScorer's fitted objects
    run,                \* number of the score_wallets call in progress
    results             \* result_df of each finished score_wallets call

vars == <<pc, args, loc, df, features_df, scores_df, scorer, run, results>>

pipeVars == <<df, features_df, scores_df, scorer, run, results>>

----------------------------------------------------------------------------
(* Generic helpers *)

Min(a, b) == IF a <= b THEN a ELSE b

Max(a, b) == IF a >= b THEN a ELSE b

Range(s) == {s[i] : i \in DOMAIN s}

\* A fraction n/d, d > 0.  A score x holds x.n / x.d hundreds of points and
\* is compared with a whole number of hundreds of points, pts.
Rat(n, d) == [n |-> n, d |-> d]

RatGe(x, pts) == x.n >= (pts \div 100) * x.d

RatLt(x, pts) == x.n < (pts \div 100) * x.d

RatLe(x, pts) == x.n <= (pts \div 100) * x.d

RatGt(x, pts) == x.n > (pts \div 100) * x.d

\* pts points as a score
Points(pts) == Rat(pts \div 100, 1)

\* What the variables hold while a specification does not use them.
Idle == [idle |-> TRUE]

PipeIdle ==
    /\ df = <<>>
    /\ features_df = <<>>
    /\ scores_df = <<>>
    /\ scorer = Idle
    /\ run = 0
    /\ results = <<>>

----------------------------------------------------------------------------
(* DeFiCreditScorer._categorize_score *)

_categorize_score_gt(score) ==
    IF RatGt(score, 900) THEN "Excellent (900-1000)"
    ELSE IF RatGt(score, 700) THEN "Good (700-899)"
    ELSE IF RatGt(score, 500) THEN "Fair (500-699)"
    ELSE IF RatGt(score, 300) THEN "Poor (300-499)"
    ELSE "Very Poor (0-299)"

_categorize_score(score) ==
    IF RatGe(score, 900) THEN "Excellent (900-1000)"
    ELSE IF RatGe(score, 700) THEN "Good (700-899)"
    ELSE IF RatGe(score, 500) THEN "Fair (500-699)"
    ELSE IF RatGe(score, 300) THEN "Poor (300-499)"
    ELSE "Very Poor (0-299)"

\* Scores are drawn in steps of 1/CatDen points over [0, 1000].
CatDen == 2

InitCategorize ==
    /\ pc = "categorize:call"
    /\ \E k \in 0..(1000 * CatDen) : args = [score |-> Rat(k, 100 * CatDen)]
    /\ loc = Idle
    /\ PipeIdle

Categorize ==
    /\ pc = "categorize:call"
    /\ loc' = [score_category |-> _categorize_score(args.score)]
    /\ pc' = "categorize:return"
    /\ UNCHANGED <<args, pipeVars>>

NextCategorize == Categorize

SpecCategorize == InitCategorize /\ [][NextCategorize]_vars

\* The five bands as the specification states them: [lo, hi) and, for the
\* top band, [lo, hi].
Bands ==
    { [lo |-> 900, hi |-> 1000, closed |-> TRUE,  label |-> "Excellent (900-1000)"],
      [lo |-> 700, hi |-> 900,  closed |-> FALSE, label |-> "Good (700-899)"],
      [lo |-> 500, hi |-> 700,  closed |-> FALSE, label |-> "Fair (500-699)"],
      [lo |-> 300, hi |-> 500,  closed |-> FALSE, label |-> "Poor (300-499)"],
      [lo |-> 0,   hi |-> 300,  closed |-> FALSE, label |-> "Very Poor (0-299)"] }

InBand(score, b) ==
    /\ RatGe(score, b.lo)
    /\ IF b.closed THEN RatLe(score, b.hi) ELSE RatLt(score, b.hi)

\* C5: every score of [0, 1000] gets the label of exactly one band, the band
\* it lies in; 300, 500, 700 and 900 fall in the upper band only.
C5_BandsContiguousExhaustive ==
    pc = "categorize:return" =>
        /\ Cardinality({b \in Bands : InBand(args.score, b)}) = 1
        /\ \A b \in Bands :
              InBand(args.score, b) <=> (loc.score_category = b.label)

C5_Witness ==
    /\ pc = "categorize:return"
    /\ args.score = Rat(900 * CatDen, 100 * CatDen)
    /\ loc.score_category = "Excellent (900-1000)"

----------------------------------------------------------------------------
(* Timestamps.  A timestamp is a whole number of hours since the epoch;    *)
(* Series.dt.date is the day it falls in and Timedelta.days the whole days *)
(* of a difference.                                                        *)

HoursPerDay == 24

DateOf(ts) == ts \div HoursPerDay

SetMin(S) == CHOOSE m \in S : \A x \in S : m <= x

SetMax(S) == CHOOSE m \in S : \A x \in S : m >= x

RECURSIVE SortSet(_)
\* sorted(S): the elements of a set of integers in increasing order.
SortSet(S) ==
    IF S = {} THEN <<>>
    ELSE LET m == SetMin(S) IN <<m>> \o SortSet(S \ {m})

----------------------------------------------------------------------------
(* FeatureEngineering._calculate_max_inactive_period, one loop iteration   *)
(* per step.  loc = [dates, i, max_gap, current_gap].                      *)

\* dates = sorted(df_sorted['timestamp'].dt.date.unique())
ActiveDates(df_sorted) == SortSet({DateOf(df_sorted[k]) : k \in DOMAIN df_sorted})

InactiveLoopBodyNoReset(l) ==
    LET gap_days == (l.dates[l.i + 1] - l.dates[l.i]) - 1 IN
    IF gap_days > 0
    THEN [l EXCEPT !.current_gap = l.current_gap + gap_days,
                   !.max_gap = Max(l.max_gap, l.current_gap + gap_days),
                   !.i = l.i + 1]
    ELSE [l EXCEPT !.i = l.i + 1]

\* The body of `for i in range(1, len(dates))`; l.i is the (1-based) index
\* of dates[i-1].
InactiveLoopBody(l) ==
    LET gap_days == (l.dates[l.i + 1] - l.dates[l.i]) - 1 IN
    IF gap_days > 0
    THEN [l EXCEPT !.current_gap = l.current_gap + gap_days,
                   !.max_gap = Max(l.max_gap, l.current_gap + gap_days),
                   !.i = l.i + 1]
    ELSE [l EXCEPT !.current_gap = 0, !.i = l.i + 1]

\* Days drawn for the active dates, and the largest of them.
MaxDay == 7

\* df_sorted: the timestamps of a wallet's rows in increasing order; `dup`
\* gives the first day two rows.
InactiveInput(S, dup) ==
    LET days == SortSet(S)
        rows == [k \in DOMAIN days |-> days[k] * HoursPerDay]
    IN  IF dup THEN <<rows[1]>> \o rows ELSE rows

InitInactive ==
    /\ pc = "inactive:call"
    /\ \E S \in (SUBSET (0..MaxDay)) \ {{}}, dup \in BOOLEAN :
           args = [df_sorted |-> InactiveInput(S, dup)]
    /\ loc = Idle
    /\ PipeIdle

\* if len(df_sorted) <= 1: return 0
InactiveEarlyReturn ==
    /\ pc = "inactive:call"
    /\ Len(args.df_sorted) <= 1
    /\ loc' = [ret |-> 0]
    /\ pc' = "inactive:return"
    /\ UNCHANGED <<args, pipeVars>>

InactiveEnter ==
    /\ pc = "inactive:call"
    /\ Len(args.df_sorted) > 1
    /\ loc' = [dates |-> ActiveDates(args.df_sorted), i |-> 1,
               max_gap |-> 0, current_gap |-> 0]
    /\ pc' = "inactive:loop"
    /\ UNCHANGED <<args, pipeVars>>

InactiveLoop ==
    /\ pc = "inactive:loop"
    /\ loc.i < Len(loc.dates)
    /\ loc' = InactiveLoopBody(loc)
    /\ UNCHANGED <<pc, args, pipeVars>>

InactiveReturn ==
    /\ pc = "inactive:loop"
    /\ loc.i >= Len(loc.dates)
    /\ loc' = [ret |-> loc.max_gap]
    /\ pc' = "inactive:return"
    /\ UNCHANGED <<args, pipeVars>>

NextInactive ==
    \/ InactiveEarlyReturn
    \/ InactiveEnter
    \/ InactiveLoop
    \/ InactiveReturn

SpecInactive == InitInactive /\ [][NextInactive]_vars

\* What the specification's algorithm yields on sorted distinct dates d: the
\* largest sum of (days-between - 1) over a run of consecutive pairs that
\* are all more than one day apart (the counter is reset by an adjacent
\* pair); 0 when there is no such pair.  The sum over pairs a..b telescopes.
StreakSums(d) ==
    { (d[b + 1] - d[a]) - (b - a + 1) :
        <<a, b>> \in { p \in (1..(Len(d) - 1)) \X (1..(Len(d) - 1)) :
                          /\ p[1] <= p[2]
                          /\ \A j \in p[1]..p[2] : d[j + 1] - d[j] > 1 } }

AccumulatedStreak(d) == SetMax(StreakSums(d) \cup {0})

AllAdjacent(d) == \A j \in 1..(Len(d) - 1) : d[j + 1] - d[j] = 1

\* C9: the walk accumulates (days-between - 1) over pairs more than a day
\* apart, resets on an adjacent pair and returns the maximum seen: 3 for
\* [d, d+1, d+5, d+6], 0 when all dates are adjacent.
C9_MaxInactiveWalk ==
    /\ pc = "inactive:loop" =>
          \* the counter is the sum since the last adjacent pair
          /\ loc.current_gap =
                SetMax({ (loc.dates[loc.i] - loc.dates[a]) - (loc.i - a) :
                            a \in { a \in 1..loc.i :
                                      \A j \in a..(loc.i - 1) :
                                          loc.dates[j + 1] - loc.dates[j] > 1 } })
          /\ loc.max_gap = AccumulatedStreak(SubSeq(loc.dates, 1, loc.i))
    /\ pc = "inactive:return" =>
          LET d == ActiveDates(args.df_sorted) IN
          /\ loc.ret = AccumulatedStreak(d)
          /\ AllAdjacent(d) => loc.ret = 0
          /\ (Len(d) = 4 /\ d[2] = d[1] + 1 /\ d[3] = d[1] + 5 /\ d[4] = d[1] + 6)
                => loc.ret = 3

C9_Witness ==
    /\ pc = "inactive:return"
    /\ ActiveDates(args.df_sorted) = <<0, 1, 5, 6>>
    /\ loc.ret = 3

\* the largest number of inactive days between two consecutive active dates
LargestSingleGap(d) ==
    SetMax({ (d[j + 1] - d[j]) - 1 : j \in 1..(Len(d) - 1) } \cup {0})

\* C20: _calculate_max_inactive_period returns the largest single run of
\* inactive days between two consecutive active dates.
C20_LargestSingleGap ==
    pc = "inactive:return" =>
        loc.ret = LargestSingleGap(ActiveDates(args.df_sorted))

----------------------------------------------------------------------------
(* Floats.  A float is [k, v]: k = "fin" with v its value, k = "nan", or   *)
(* k = "inf" (+Inf).  Whole-number features (counts, days) carry v in      *)
(* units; every other feature carries v in 1/SCALE units (three decimals), *)
(* quotients rounded down.  Base scores are held in 1/PSCALE points.       *)

SCALE == 1000

PSCALE == 10

Fin(v) == [k |-> "fin", v |-> v]

NaN == [k |-> "nan", v |-> 0]

PInf == [k |-> "inf", v |-> 0]

IsFinite(x) == x.k = "fin"

\* x > c, as Python compares floats: False when x is NaN.
FGt(x, c) == (x.k = "inf") \/ (x.k = "fin" /\ x.v > c)

FGe(x, c) == (x.k = "inf") \/ (x.k = "fin" /\ x.v >= c)

\* np.clip left out
NoClip(v, lo, hi) == v

\* np.clip on finite values
Clip(v, lo, hi) == IF v < lo THEN lo ELSE IF v > hi THEN hi ELSE v

----------------------------------------------------------------------------
(* DeFiCreditScorer._define_feature_weights: feature -> weight * 100, in   *)
(* the dict's order.                                                       *)

FeatureWeightsNegRepay ==
    << [feature |-> "repay_consistency_score", weight |-> -15],
       [feature |-> "liquidation_frequency", weight |-> -10],
       [feature |-> "activity_consistency_cv", weight |-> -5],
       [feature |-> "has_liquidations", weight |-> -10],
       [feature |-> "action_diversity_score", weight |-> 8],
       [feature |-> "asset_concentration_hhi", weight |-> -5],
       [feature |-> "gas_optimization_score", weight |-> 7],
       [feature |-> "transaction_complexity_score", weight |-> 5],
       [feature |-> "total_volume", weight |-> 8],
       [feature |-> "tenure_days", weight |-> 7],
       [feature |-> "total_transactions", weight |-> 5],
       [feature |-> "leverage_ratio", weight |-> -5],
       [feature |-> "position_size_variance", weight |-> -5],
       [feature |-> "bot_like_regularity", weight |-> -5] >>

_define_feature_weights ==
    << [feature |-> "repay_consistency_score", weight |-> 15],
       [feature |-> "liquidation_frequency", weight |-> -10],
       [feature |-> "activity_consistency_cv", weight |-> -5],
       [feature |-> "has_liquidations", weight |-> -10],
       [feature |-> "action_diversity_score", weight |-> 8],
       [feature |-> "asset_concentration_hhi", weight |-> -5],
       [feature |-> "gas_optimization_score", weight |-> 7],
       [feature |-> "transaction_complexity_score", weight |-> 5],
       [feature |-> "total_volume", weight |-> 8],
       [feature |-> "tenure_days", weight |-> 7],
       [feature |-> "total_transactions", weight |-> 5],
       [feature |-> "leverage_ratio", weight |-> -5],
       [feature |-> "position_size_variance", weight |-> -5],
       [feature |-> "bot_like_regularity", weight |-> -5] >>

WeightedFeatures == { _define_feature_weights[i].feature : i \in DOMAIN _define_feature_weights }

----------------------------------------------------------------------------
(* DeFiCreditScorer._apply_heuristic_bonuses.  `features` is a raw feature  *)
(* row (floats); the bonus is a whole number of points.                     *)

\* features.get(name, 0)
Get(features, name) == IF name \in DOMAIN features THEN features[name] ELSE Fin(0)

\* bonuses where the upper tier of tenure, transactions and assets is paid
\* on top of the lower one
BonusesBothTiers(features) ==
    (IF FGt(Get(features, "tenure_days"), 365) THEN 50 ELSE 0)
    + (IF FGt(Get(features, "tenure_days"), 180) THEN 25 ELSE 0)
    + (IF FGt(Get(features, "total_transactions"), 50) THEN 30 ELSE 0)
    + (IF FGt(Get(features, "total_transactions"), 20) THEN 15 ELSE 0)
    + (IF FGt(Get(features, "unique_assets"), 5) THEN 20 ELSE 0)
    + (IF FGt(Get(features, "unique_assets"), 3) THEN 10 ELSE 0)
    + (IF FGe(Get(features, "repay_ratio"), SCALE)
          /\ FGt(Get(features, "borrow_count"), 0) THEN 40 ELSE 0)
    - Get(features, "liquidation_count").v * 30
    - (IF FGt(Get(features, "bot_like_regularity"), (7 * SCALE) \div 10) THEN 100 ELSE 0)

_apply_heuristic_bonuses(features) ==
    LET tenure == IF FGt(Get(features, "tenure_days"), 365) THEN 50
                  ELSE IF FGt(Get(features, "tenure_days"), 180) THEN 25 ELSE 0
        txs    == IF FGt(Get(features, "total_transactions"), 50) THEN 30
                  ELSE IF FGt(Get(features, "total_transactions"), 20) THEN 15 ELSE 0
        assets == IF FGt(Get(features, "unique_assets"), 5) THEN 20
                  ELSE IF FGt(Get(features, "unique_assets"), 3) THEN 10 ELSE 0
        repay  == IF FGe(Get(features, "repay_ratio"), SCALE)
                     /\ FGt(Get(features, "borrow_count"), 0) THEN 40 ELSE 0
        liq    == IF FGt(Get(features, "liquidation_count"), 0)
                  THEN Get(features, "liquidation_count").v * 30 ELSE 0
        bot    == IF FGt(Get(features, "bot_like_regularity"), (7 * SCALE) \div 10)
                  THEN 100 ELSE 0
    IN  tenure + txs + assets + repay - liq - bot

----------------------------------------------------------------------------
(* DeFiCreditScorer._calculate_weighted_score.  scaled_features maps each   *)
(* feature to its scaled value (1/SCALE units); weight * value * 100 is     *)
(* (weight * 100) * value.  The score is in 1/PSCALE points.                *)

\* weight * feature_value * 100 for one item of the weight table (in 1/SCALE
\* points), 0 for a feature the row does not have
Contribution(w, scaled_features) ==
    IF w.feature \in DOMAIN scaled_features
    THEN w.weight * Clip(scaled_features[w.feature], -3 * SCALE, 3 * SCALE)
    ELSE 0

RECURSIVE WeightedSum(_, _, _)
\* the `for feature, weight in self.feature_weights.items()` loop from the
\* i-th item on
WeightedSum(weights, scaled_features, i) ==
    IF i > Len(weights) THEN 0
    ELSE Contribution(weights[i], scaled_features)
         + WeightedSum(weights, scaled_features, i + 1)

_calculate_weighted_score(scaled_features, raw_features) ==
    500 * PSCALE
    + (WeightedSum(_define_feature_weights, scaled_features, 1) * PSCALE) \div SCALE
    + _apply_heuristic_bonuses(raw_features) * PSCALE

\* Scaled values are drawn in steps of 1/2 over [-MaxScaledHalf/2, MaxScaledHalf/2].
MaxScaledHalf == 8

ScaledGrid == { k * (SCALE \div 2) : k \in (-MaxScaledHalf)..MaxScaledHalf }

\* the weight (times 100) of a feature, 0 for a feature without weight
WeightOf(f) ==
    IF f \in WeightedFeatures
    THEN _define_feature_weights[CHOOSE i \in DOMAIN _define_feature_weights :
                                    _define_feature_weights[i].feature = f].weight
    ELSE 0

\* A scaled row: repay_consistency_score r, every other column `rest`, or
\* -rest under a negative weight if `aligned` (unique_assets is a column the
\* weight table does not name).
ScaledRow(r, rest, aligned) ==
    [f \in WeightedFeatures \cup {"unique_assets"} |->
        IF f = "repay_consistency_score" THEN r
        ELSE IF aligned /\ WeightOf(f) < 0 THEN -rest
        ELSE rest]

\* Raw rows for the bonuses: no bonus; every bonus; both penalties.
RawSamples ==
    { [tenure_days |-> Fin(0), total_transactions |-> Fin(1), unique_assets |-> Fin(1),
       repay_ratio |-> Fin(0), borrow_count |-> Fin(0), liquidation_count |-> Fin(0),
       bot_like_regularity |-> Fin(0)],
      [tenure_days |-> Fin(400), total_transactions |-> Fin(60), unique_assets |-> Fin(6),
       repay_ratio |-> Fin(SCALE), borrow_count |-> Fin(2), liquidation_count |-> Fin(0),
       bot_like_regularity |-> Fin(0)],
      [tenure_days |-> Fin(200), total_transactions |-> Fin(30), unique_assets |-> Fin(4),
       repay_ratio |-> Fin(SCALE \div 2), borrow_count |-> Fin(1), liquidation_count |-> Fin(2),
       bot_like_regularity |-> Fin((9 * SCALE) \div 10)] }

InitWeighted ==
    /\ pc = "weighted:call"
    /\ \E ra \in ScaledGrid, rb \in ScaledGrid,
          rest \in {-(MaxScaledHalf * SCALE) \div 2, 0, (MaxScaledHalf * SCALE) \div 2},
          aligned \in BOOLEAN, raw \in RawSamples :
           args = [row_a |-> ScaledRow(ra, rest, aligned),
                   row_b |-> ScaledRow(rb, rest, aligned),
                   raw_features |-> raw]
    /\ loc = Idle
    /\ PipeIdle

\* score = self._calculate_weighted_score(row, features_df.iloc[idx]), for
\* the two rows
WeightedScore ==
    /\ pc = "weighted:call"
    /\ loc' = [score_a |-> _calculate_weighted_score(args.row_a, args.raw_features),
               score_b |-> _calculate_weighted_score(args.row_b, args.raw_features)]
    /\ pc' = "weighted:return"
    /\ UNCHANGED <<args, pipeVars>>

NextWeighted == WeightedScore

SpecWeighted == InitWeighted /\ [][NextWeighted]_vars

\* C10: of two scaled rows that differ only in repay_consistency_score, the
\* one with the strictly larger value has a base score that is not lower,
\* inside and outside the clip range [-3, 3].
C10_RepayMonotone ==
    pc = "weighted:return" =>
        (args.row_a.repay_consistency_score > args.row_b.repay_consistency_score
            => loc.score_a >= loc.score_b)

C10_Witness ==
    /\ pc = "weighted:return"
    /\ args.row_a.repay_consistency_score > 3 * SCALE
    /\ args.row_b.repay_consistency_score < 3 * SCALE
    /\ args.row_b.repay_consistency_score > -3 * SCALE
    /\ loc.score_a > loc.score_b

\* |x|
Abs(x) == IF x < 0 THEN -x ELSE x

\* the largest weight (times 100) of the table
MaxWeight == SetMax({Abs(_define_feature_weights[i].weight) : i \in DOMAIN _define_feature_weights})

\* C17: each weighted feature moves the base score by at most 300 * |weight|
\* points, at most 45 for the largest weight 0.15, and the score before the
\* heuristic bonuses lies in [200, 800].
C17_ContributionBounded ==
    pc = "weighted:return" =>
        /\ MaxWeight = 15
        /\ \A row \in {args.row_a, args.row_b} :
              \A i \in DOMAIN _define_feature_weights :
                 /\ Abs(Contribution(_define_feature_weights[i], row))
                       <= 3 * Abs(_define_feature_weights[i].weight) * SCALE
                 /\ Abs(Contribution(_define_feature_weights[i], row)) <= 45 * SCALE
        /\ \A score \in {loc.score_a, loc.score_b} :
              LET weighted == score - _apply_heuristic_bonuses(args.raw_features) * PSCALE
              IN  200 * PSCALE <= weighted /\ weighted <= 800 * PSCALE

\* every scaled value lies outside [-3, 3] on the side its weight rewards
\* in row a, and the weighted part reaches 800
C17_Witness ==
    /\ pc = "weighted:return"
    /\ \A i \in DOMAIN _define_feature_weights :
          Abs(args.row_a[_define_feature_weights[i].feature]) > 3 * SCALE
    /\ loc.score_a - _apply_heuristic_bonuses(args.raw_features) * PSCALE = 800 * PSCALE

----------------------------------------------------------------------------
(* DeFiCreditScorer._normalize_scores.  A scores_df row is                 *)
(* [wallet_address, base_score, risk_adjusted_score]; base_score is in     *)
(* 1/PSCALE points and risk_adjusted_score in 1/(PSCALE * RiskDen) points  *)
(* (base_score times a product of two tenths).  credit_score is a fraction *)
(* of hundreds of points.                                                  *)

RiskDen == 100

RECURSIVE SortScores(_)
\* np.sort: a sequence of integers in non-decreasing order
SortScores(seq) ==
    IF seq = <<>> THEN <<>>
    ELSE LET rest == SortScores(Tail(seq))
         IN  SelectSeq(rest, LAMBDA x : x <= Head(seq)) \o <<Head(seq)>>
                 \o SelectSeq(rest, LAMBDA x : x > Head(seq))

\* np.percentile(scores, q), linear interpolation between the two nearest
\* ranks, times 100: the virtual index is q/100 * (n - 1).
Percentile100(scores, q) ==
    LET sorted == SortScores(scores)
        pos    == q * (Len(scores) - 1)
        lo     == (pos \div 100) + 1
        frac   == pos % 100
    IN  IF frac = 0 THEN 100 * sorted[lo]
        ELSE 100 * sorted[lo] + frac * (sorted[lo + 1] - sorted[lo])

\* scores_clipped = np.clip(scores, q1, q99), times 100
ScoresClipped100(scores) ==
    LET q1  == Percentile100(scores, 1)
        q99 == Percentile100(scores, 99)
    IN  [i \in DOMAIN scores |-> Clip(100 * scores[i], q1, q99)]

\* a rescale that runs from the maximum down
NormalizedScoresDescending(scores) ==
    LET clipped   == ScoresClipped100(scores)
        min_score == SetMin(Range(clipped))
        max_score == SetMax(Range(clipped))
    IN  IF max_score > min_score
        THEN [i \in DOMAIN scores |->
                 Rat(10 * (max_score - clipped[i]), max_score - min_score)]
        ELSE [i \in DOMAIN scores |-> Points(500)]

\* a rescale over the range of the scores as they were before the clip
NormalizedScoresRawRange(scores) ==
    LET clipped   == ScoresClipped100(scores)
        min_score == 100 * SetMin(Range(scores))
        max_score == 100 * SetMax(Range(scores))
    IN  IF max_score > min_score
        THEN [i \in DOMAIN scores |->
                 Rat(10 * (clipped[i] - min_score), max_score - min_score)]
        ELSE [i \in DOMAIN scores |-> Points(500)]

\* normalized_scores: 1000 * (clipped - min) / (max - min), or 500 for all
NormalizedScores(scores) ==
    LET clipped   == ScoresClipped100(scores)
        min_score == SetMin(Range(clipped))
        max_score == SetMax(Range(clipped))
    IN  IF max_score > min_score
        THEN [i \in DOMAIN scores |->
                 Rat(10 * (clipped[i] - min_score), max_score - min_score)]
        ELSE [i \in DOMAIN scores |-> Points(500)]

\* min(score, k) and max(score, k) of a fraction and a whole number
RatMin(x, pts) == IF RatLe(x, pts) THEN x ELSE Points(pts)

RatMax(x, pts) == IF RatGe(x, pts) THEN x ELSE Points(pts)

FinalScoreKeyedOnRisk(score, row) ==
    LET s == IF row.risk_adjusted_score < 200 * PSCALE * RiskDen THEN RatMin(score, 300)
             ELSE IF row.risk_adjusted_score > 800 * PSCALE * RiskDen THEN RatMax(score, 700)
             ELSE score
    IN  RatMax(RatMin(s, 1000), 0)

\* The body of the loop over scores_df.iterrows(): the override keyed on
\* base_score, then max(0, min(1000, score)).
FinalScore(score, row) ==
    LET s == IF row.base_score < 200 * PSCALE THEN RatMin(score, 300)
             ELSE IF row.base_score > 800 * PSCALE THEN RatMax(score, 700)
             ELSE score
    IN  RatMax(RatMin(s, 1000), 0)

\* Two slips at once: the rescale reads the unclipped scores and the final
\* clamp is left out.
_normalize_scores_unclipped(sdf) ==
    LET scores    == [i \in DOMAIN sdf |-> sdf[i].risk_adjusted_score]
        clipped   == ScoresClipped100(scores)
        min_score == SetMin(Range(clipped))
        max_score == SetMax(Range(clipped))
        credit(i) == IF max_score > min_score
                     THEN Rat(10 * (100 * scores[i] - min_score), max_score - min_score)
                     ELSE Points(500)
    IN  [i \in DOMAIN sdf |->
            [wallet_address |-> sdf[i].wallet_address,
             base_score |-> sdf[i].base_score,
             risk_adjusted_score |-> sdf[i].risk_adjusted_score,
             credit_score |-> credit(i),
             score_category |-> _categorize_score(credit(i))]]

_normalize_scores(sdf) ==
    LET scores     == [i \in DOMAIN sdf |-> sdf[i].risk_adjusted_score]
        normalized == NormalizedScores(scores)
        credit(i)  == FinalScore(normalized[i], sdf[i])
    IN  [i \in DOMAIN sdf |->
            [wallet_address |-> sdf[i].wallet_address,
             base_score |-> sdf[i].base_score,
             risk_adjusted_score |-> sdf[i].risk_adjusted_score,
             credit_score |-> credit(i),
             score_category |-> _categorize_score(credit(i))]]

\* KMeans(n_clusters=5): fit_predict needs at least this many wallets, so
\* a population that reaches _normalize_scores has at least n_clusters rows.
n_clusters == 5

\* The largest population drawn for _normalize_scores.
MaxScored == 5

\* base scores drawn (points): negative, below 200, mid, above 800, very large
BaseList == <<-300, 150, 500, 900, 1500>>

\* risk multipliers drawn (hundredths): 0.7 * 0.8, none, 1.1
MultList == <<56, 100, 110>>

ScoredKinds == Len(BaseList) * Len(MultList)

ScoredKind(t) ==
    [base |-> BaseList[((t - 1) \div Len(MultList)) + 1] * PSCALE,
     mult |-> MultList[((t - 1) % Len(MultList)) + 1]]

RECURSIVE NonDecreasing(_, _, _)
\* the non-decreasing sequences of length n over lo..hi
NonDecreasing(n, lo, hi) ==
    IF n = 0 THEN {<<>>}
    ELSE UNION { { <<t>> \o rest : rest \in NonDecreasing(n - 1, t, hi) } : t \in lo..hi }

Reverse(seq) == [i \in DOMAIN seq |-> seq[Len(seq) + 1 - i]]

\* the scores_df that _apply_risk_adjustments hands over for the kinds ks
ScoredTable(ks) ==
    [i \in DOMAIN ks |->
        [wallet_address |-> i,
         base_score |-> ScoredKind(ks[i]).base,
         risk_adjusted_score |-> (ScoredKind(ks[i]).base * ScoredKind(ks[i]).mult * RiskDen) \div 100]]

InitNormalize ==
    /\ pc = "normalize:call"
    /\ \E n \in n_clusters..MaxScored :
         \E ks \in NonDecreasing(n, 1, ScoredKinds), rev \in BOOLEAN :
           args = [scores_df |-> ScoredTable(IF rev THEN Reverse(ks) ELSE ks)]
    /\ loc = Idle
    /\ PipeIdle

\* scores_df = self._normalize_scores(scores_df)
Normalize ==
    /\ pc = "normalize:call"
    /\ loc' = [scores_df |-> _normalize_scores(args.scores_df)]
    /\ pc' = "normalize:return"
    /\ UNCHANGED <<args, pipeVars>>

NextNormalize == Normalize

SpecNormalize == InitNormalize /\ [][NextNormalize]_vars

\* C1: after normalization every wallet's credit_score lies in [0, 1000],
\* whatever its base and risk-adjusted scores and whichever override branch
\* applies.
C1_CreditScoreBounded ==
    pc = "normalize:return" =>
        \A i \in DOMAIN loc.scores_df :
            /\ RatGe(loc.scores_df[i].credit_score, 0)
            /\ RatLe(loc.scores_df[i].credit_score, 1000)

\* all three override branches in one population, with a negative and a very
\* large risk-adjusted score
C1_Witness ==
    /\ pc = "normalize:return"
    /\ \E i, j, k \in DOMAIN loc.scores_df :
          /\ loc.scores_df[i].base_score < 200 * PSCALE
          /\ loc.scores_df[i].risk_adjusted_score < 0
          /\ loc.scores_df[j].base_score > 800 * PSCALE
          /\ loc.scores_df[j].risk_adjusted_score > 1000 * PSCALE * RiskDen
          /\ loc.scores_df[k].base_score = 500 * PSCALE
          /\ RatGt(loc.scores_df[k].credit_score, 0)
          /\ RatLt(loc.scores_df[k].credit_score, 1000)

\* C4: base_score < 200 ends with credit_score <= 300 and base_score > 800
\* with credit_score >= 700, whatever the risk-adjusted score and the
\* percentile position; the rule reads base_score.
C4_OverrideKeyedOnBase ==
    pc = "normalize:return" =>
        \A i \in DOMAIN loc.scores_df :
            /\ loc.scores_df[i].base_score < 200 * PSCALE
                  => RatLe(loc.scores_df[i].credit_score, 300)
            /\ loc.scores_df[i].base_score > 800 * PSCALE
                  => RatGe(loc.scores_df[i].credit_score, 700)

\* a wallet below 200 whose rescaled score is above 300 is capped at 300,
\* and a wallet above 800 whose rescaled score is below 700 is floored at 700
C4_Witness ==
    /\ pc = "normalize:return"
    /\ LET normalized == NormalizedScores(
                [k \in DOMAIN args.scores_df |-> args.scores_df[k].risk_adjusted_score])
       IN  \E i, j \in DOMAIN loc.scores_df :
              /\ args.scores_df[i].base_score < 200 * PSCALE
              /\ RatGt(normalized[i], 300)
              /\ loc.scores_df[i].credit_score = Points(300)
              /\ args.scores_df[j].base_score > 800 * PSCALE
              /\ RatLt(normalized[j], 700)
              /\ loc.scores_df[j].credit_score = Points(700)

----------------------------------------------------------------------------
(* Fixed-point arithmetic of the feature extractor.  Series hold whole      *)
(* numbers (amounts, gas, hours, counts); a statistic is a float in 1/SCALE *)
(* units.                                                                   *)

RECURSIVE SumSeq(_)
\* Series.sum
SumSeq(xs) == IF xs = <<>> THEN 0 ELSE Head(xs) + SumSeq(Tail(xs))

RECURSIVE LongDiv(_, _, _, _)
\* long division, one decimal digit per step: q and r are the quotient and
\* the remainder so far, f (a power of 10) the scale still to apply
LongDiv(q, r, b, f) ==
    IF f = 1 THEN q
    ELSE LongDiv(q * 10 + (r * 10) \div b, (r * 10) % b, b, f \div 10)

\* a * f / b rounded towards zero, b > 0, f a power of 10
ScaledQuot(a, b, f) ==
    IF a >= 0 THEN LongDiv(a \div b, a % b, b, f)
    ELSE -LongDiv((-a) \div b, (-a) % b, b, f)

RECURSIVE IsqrtBetween(_, _, _)
\* the largest r in lo..hi with r * r <= x
IsqrtBetween(x, lo, hi) ==
    IF lo >= hi THEN lo
    ELSE LET mid == (lo + hi + 1) \div 2 IN
         IF mid * mid <= x THEN IsqrtBetween(x, mid, hi)
         ELSE IsqrtBetween(x, lo, mid - 1)

\* the square root of x >= 0, rounded down
Isqrt(x) == IsqrtBetween(x, 0, Min(x, 46340))

\* a / b of two non-negative floats' values as numpy divides: x/0 is Inf,
\* 0/0 is NaN
FloatDiv(a, b) ==
    IF b = 0 THEN (IF a = 0 THEN NaN ELSE PInf)
    ELSE Fin(ScaledQuot(a, b, SCALE))

Square(x) == x * x

\* Series ** 2
Squares(xs) == [k \in DOMAIN xs |-> Square(xs[k])]

\* n * sum(x^2) - sum(x)^2: n * (n - 1) times the sample variance
VarNum(xs) == Len(xs) * SumSeq(Squares(xs)) - Square(SumSeq(xs))

\* Series.mean (a non-empty series)
SeriesMean(xs) == Fin(ScaledQuot(SumSeq(xs), Len(xs), SCALE))

\* Series.median (a non-empty series)
SeriesMedian(xs) ==
    LET sorted == SortScores(xs)
        n      == Len(xs)
    IN  IF n % 2 = 1 THEN Fin(sorted[(n + 1) \div 2] * SCALE)
        ELSE Fin(ScaledQuot(sorted[n \div 2] + sorted[(n \div 2) + 1], 2, SCALE))

\* Series.var (ddof = 1): NaN for fewer than two values
SeriesVar(xs) ==
    IF Len(xs) <= 1 THEN NaN
    ELSE Fin(ScaledQuot(VarNum(xs), Len(xs) * (Len(xs) - 1), SCALE))

\* Series.std (ddof = 1): NaN for fewer than two values
SeriesStd(xs) ==
    IF Len(xs) <= 1 THEN NaN
    ELSE Fin(Isqrt(ScaledQuot(VarNum(xs), Len(xs) * (Len(xs) - 1), SCALE * SCALE)))

\* Series.std() / Series.mean() for a series of mean > 0: NaN for a single
\* value, else sqrt(n * VarNum / ((n - 1) * sum^2))
SeriesCV(xs) ==
    IF Len(xs) <= 1 THEN NaN
    ELSE Fin(Isqrt(ScaledQuot(Len(xs) * VarNum(xs),
                              (Len(xs) - 1) * Square(SumSeq(xs)), SCALE * SCALE)))

\* Python's max(0, 1 - k * cv): max keeps its first argument against NaN
MaxZeroOneMinus(k, cv) ==
    IF cv.k = "nan" THEN Fin(0)
    ELSE IF cv.k = "inf" THEN Fin(0)
    ELSE Fin(Max(0, SCALE - k * cv.v))

----------------------------------------------------------------------------
(* A wallet's rows.  A row of the converted table is                        *)
(* [wallet_address, action, asset, amount, gas_used, timestamp]: amount and *)
(* gas_used whole numbers >= 0, timestamp in hours.                         *)

\* the asset symbols of the model, in a fixed order
AssetList == <<"USDC", "DAI", "WETH", "WBTC">>

Column(wdf, name) == [k \in DOMAIN wdf |-> wdf[k][name]]

\* df[df['action'] == action]
RowsOfAction(wdf, action) == SelectSeq(wdf, LAMBDA r : r.action = action)

\* df.groupby('action')['amount'].sum().get(action, 0)
ActionVolume(wdf, action) == SumSeq(Column(RowsOfAction(wdf, action), "amount"))

\* df['action'].value_counts().get(action, 0)
ActionCount(wdf, action) == Len(RowsOfAction(wdf, action))

\* df.groupby('asset')['amount'].sum(), as a series
AssetVolumes(wdf) ==
    LET present == SelectSeq(AssetList, LAMBDA a : \E k \in DOMAIN wdf : wdf[k].asset = a)
    IN  [i \in DOMAIN present |->
            SumSeq(Column(SelectSeq(wdf, LAMBDA r : r.asset = present[i]), "amount"))]

----------------------------------------------------------------------------
(* FeatureEngineering: the per-wallet extractors.  wdf is the wallet's      *)
(* group of rows (never empty).                                             *)

_extract_basic_features(wdf) ==
    LET amount == Column(wdf, "amount")
        gas    == Column(wdf, "gas_used")
    IN  [total_transactions      |-> Fin(Len(wdf)),
         total_volume            |-> Fin(SumSeq(amount) * SCALE),
         avg_transaction_size    |-> SeriesMean(amount),
         median_transaction_size |-> SeriesMedian(amount),
         max_transaction_size    |-> Fin(SetMax(Range(amount)) * SCALE),
         min_transaction_size    |-> Fin(SetMin(Range(amount)) * SCALE),
         transaction_std         |-> SeriesStd(amount),
         unique_assets           |-> Fin(Cardinality(Range(Column(wdf, "asset")))),
         total_gas_used          |-> Fin(SumSeq(gas) * SCALE),
         avg_gas_per_tx          |-> SeriesMean(gas)]

\* Herfindahl-Hirschman index of the per-asset volumes
_calculate_asset_concentration(wdf) ==
    LET asset_volumes == AssetVolumes(wdf)
        total_volume  == SumSeq(asset_volumes)
    IN  IF total_volume = 0 THEN Fin(0)
        ELSE Fin(ScaledQuot(SumSeq(Squares(asset_volumes)),
                            Square(total_volume), SCALE))

_extract_financial_features(wdf) ==
    LET deposits == ActionVolume(wdf, "deposit")
        borrows  == ActionVolume(wdf, "borrow")
        repays   == ActionVolume(wdf, "repay")
        redeems  == ActionVolume(wdf, "redeemunderlying")
    IN  [deposit_count     |-> Fin(ActionCount(wdf, "deposit")),
         borrow_count      |-> Fin(ActionCount(wdf, "borrow")),
         repay_count       |-> Fin(ActionCount(wdf, "repay")),
         redeem_count      |-> Fin(ActionCount(wdf, "redeemunderlying")),
         liquidation_count |-> Fin(ActionCount(wdf, "liquidationcall")),
         deposit_volume    |-> Fin(deposits * SCALE),
         borrow_volume     |-> Fin(borrows * SCALE),
         repay_volume      |-> Fin(repays * SCALE),
         redeem_volume     |-> Fin(redeems * SCALE),
         net_deposit_volume |-> Fin((deposits - redeems) * SCALE),
         leverage_ratio    |-> IF deposits > 0 THEN Fin(ScaledQuot(borrows, deposits, SCALE))
                               ELSE Fin(0),
         repay_ratio       |-> IF borrows > 0 THEN Fin(ScaledQuot(repays, borrows, SCALE))
                               ELSE Fin(0),
         asset_concentration_hhi |-> _calculate_asset_concentration(wdf),
         avg_position_size |-> SeriesMean(AssetVolumes(wdf))]

\* Python's min(x, 1.0): 1.0 when 1.0 < x, else x (so NaN stays NaN)
PyMinOne(x) ==
    IF x.k = "inf" THEN Fin(SCALE)
    ELSE IF x.k = "nan" THEN NaN
    ELSE Fin(Min(x.v, SCALE))

_calculate_repay_consistency(borrow_df, repay_df) ==
    IF Len(borrow_df) = 0 THEN Fin(SCALE)
    ELSE IF Len(repay_df) = 0 THEN Fin(0)
    ELSE PyMinOne(FloatDiv(SumSeq(Column(repay_df, "amount")),
                           SumSeq(Column(borrow_df, "amount"))))

_extract_risk_features(wdf) ==
    LET liquidations == RowsOfAction(wdf, "liquidationcall")
        total        == SumSeq(Column(wdf, "amount"))
    IN  [liquidation_frequency    |-> Fin(ScaledQuot(Len(liquidations), Len(wdf), SCALE)),
         liquidation_volume_ratio |->
             IF total > 0
             THEN Fin(ScaledQuot(SumSeq(Column(liquidations, "amount")), total, SCALE))
             ELSE Fin(0),
         has_liquidations         |-> Fin(IF Len(liquidations) > 0 THEN 1 ELSE 0),
         repay_consistency_score  |->
             _calculate_repay_consistency(RowsOfAction(wdf, "borrow"),
                                          RowsOfAction(wdf, "repay")),
         position_size_variance   |-> SeriesVar(AssetVolumes(wdf)),
         max_single_position_ratio |->
             IF total > 0
             THEN Fin(ScaledQuot(SetMax(Range(AssetVolumes(wdf))), total, SCALE))
             ELSE Fin(0)]

RECURSIVE InactiveWalk(_)
\* the loop of _calculate_max_inactive_period run to its end
InactiveWalk(l) == IF l.i >= Len(l.dates) THEN l.max_gap ELSE InactiveWalk(InactiveLoopBody(l))

_calculate_max_inactive_period(df_sorted) ==
    IF Len(df_sorted) <= 1 THEN 0
    ELSE InactiveWalk([dates |-> ActiveDates(df_sorted), i |-> 1,
                       max_gap |-> 0, current_gap |-> 0])

\* 1970-01-01 was a Thursday: Series.dt.dayofweek counts Monday as 0
EpochDayOfWeek == 3

DayOfWeek(ts) == (DateOf(ts) + EpochDayOfWeek) % 7

\* df_sorted['timestamp'].diff().dropna(), in hours
TimeIntervals(sorted_ts) == [k \in 1..(Len(sorted_ts) - 1) |-> sorted_ts[k + 1] - sorted_ts[k]]

\* df.groupby(df['timestamp'].dt.date).size(), as a series over the dates
DailyActivity(timestamps) ==
    LET dates == ActiveDates(timestamps)
    IN  [i \in DOMAIN dates |->
            Cardinality({k \in DOMAIN timestamps : DateOf(timestamps[k]) = dates[i]})]

_extract_temporal_features(wdf) ==
    LET timestamps     == Column(wdf, "timestamp")
        df_sorted      == SortScores(timestamps)
        first_tx       == SetMin(Range(timestamps))
        last_tx        == SetMax(Range(timestamps))
        tenure_days    == (last_tx - first_tx) \div HoursPerDay
        daily_activity == DailyActivity(timestamps)
        time_intervals == TimeIntervals(df_sorted)
        weekend        == Cardinality({k \in DOMAIN wdf : DayOfWeek(timestamps[k]) \in {5, 6}})
    IN  [tenure_days                  |-> Fin(tenure_days),
         activity_frequency           |-> Fin(ScaledQuot(Len(wdf), Max(tenure_days, 1), SCALE)),
         activity_consistency_cv      |-> SeriesCV(daily_activity),
         avg_time_between_tx_hours    |-> IF Len(time_intervals) > 0
                                          THEN SeriesMean(time_intervals) ELSE Fin(0),
         median_time_between_tx_hours |-> IF Len(time_intervals) > 0
                                          THEN SeriesMedian(time_intervals) ELSE Fin(0),
         weekend_activity_ratio       |-> Fin(ScaledQuot(weekend, Len(wdf), SCALE)),
         days_active                  |-> Fin(Len(daily_activity)),
         max_inactive_days            |-> Fin(_calculate_max_inactive_period(df_sorted))]

_calculate_gas_optimization(wdf) ==
    LET gas == Column(wdf, "gas_used")
    IN  IF SumSeq(gas) = 0 THEN Fin(SCALE \div 2)
        ELSE MaxZeroOneMinus(1, SeriesCV(gas))

_detect_bot_like_patterns(wdf) ==
    IF Len(wdf) < 3 THEN Fin(0)
    ELSE LET time_intervals == TimeIntervals(SortScores(Column(wdf, "timestamp")))
             interval_cv    == IF SumSeq(time_intervals) > 0 THEN SeriesCV(time_intervals)
                               ELSE Fin(SCALE)
         IN  MaxZeroOneMinus(2, interval_cv)

_calculate_complexity_score(wdf) ==
    LET amount         == Column(wdf, "amount")
        actions        == Cardinality(Range(Column(wdf, "action")))
        assets         == Cardinality(Range(Column(wdf, "asset")))
        action_variety == ScaledQuot(actions, 5, SCALE)
        asset_variety  == ScaledQuot(assets, Max(assets, 1), SCALE)
        amount_variety == IF SumSeq(amount) > 0 THEN MaxZeroOneMinus(1, SeriesCV(amount))
                          ELSE Fin(0)
    IN  Fin((action_variety + asset_variety + amount_variety.v) \div 3)

\* (df['amount'] / df['gas_used']).mean(): x/0 is Inf, 0/0 is NaN and the
\* mean skips NaN
GasEfficiencyMean(wdf) ==
    LET defined == SelectSeq(wdf, LAMBDA r : ~(r.gas_used = 0 /\ r.amount = 0))
        quot    == [k \in DOMAIN defined |->
                       IF defined[k].gas_used = 0 THEN 0
                       ELSE ScaledQuot(defined[k].amount, defined[k].gas_used, SCALE)]
    IN  IF \E k \in DOMAIN defined : defined[k].gas_used = 0 THEN PInf
        ELSE Fin(SumSeq(quot) \div Len(defined))

_extract_network_features(wdf) ==
    [gas_efficiency_score   |-> IF SumSeq(Column(wdf, "gas_used")) > 0
                                THEN GasEfficiencyMean(wdf) ELSE Fin(0),
     gas_optimization_score |-> _calculate_gas_optimization(wdf),
     action_diversity_score |->
         Fin(ScaledQuot(Cardinality(Range(Column(wdf, "action"))), 5, SCALE)),
     bot_like_regularity    |-> _detect_bot_like_patterns(wdf),
     unique_gas_prices      |-> Fin(Cardinality(Range(Column(wdf, "gas_used")))),
     transaction_complexity_score |-> _calculate_complexity_score(wdf)]

\* dict.update: the fields of g added to f
Update(f, g) ==
    [x \in (DOMAIN f) \cup (DOMAIN g) |-> IF x \in DOMAIN g THEN g[x] ELSE f[x]]

_extract_wallet_features(wallet_address, wdf) ==
    Update(Update(Update(Update(Update(
        [wallet_address |-> wallet_address],
        _extract_basic_features(wdf)),
        _extract_financial_features(wdf)),
        _extract_risk_features(wdf)),
        _extract_temporal_features(wdf)),
        _extract_network_features(wdf))

\* the numeric columns of features_df
FeatureCols ==
    (DOMAIN _extract_wallet_features(0, <<[wallet_address |-> 0, action |-> "deposit",
        asset |-> "USDC", amount |-> 0, gas_used |-> 0, timestamp |-> 0]>>))
    \ {"wallet_address"}

----------------------------------------------------------------------------
(* FeatureEngineering._extract_wallet_features, one extractor per step.     *)
(* args = [wallet_address, df]; loc is the `features` dict.                 *)

\* rows drawn for a wallet: [action, asset, amount, gas_used]
TxKinds ==
    << [action |-> "deposit",          asset |-> "USDC", amount |-> 10, gas_used |-> 15],
       [action |-> "deposit",          asset |-> "DAI",  amount |-> 0,  gas_used |-> 0],
       [action |-> "borrow",           asset |-> "USDC", amount |-> 5,  gas_used |-> 18],
       [action |-> "borrow",           asset |-> "USDC", amount |-> 0,  gas_used |-> 18],
       [action |-> "repay",            asset |-> "USDC", amount |-> 5,  gas_used |-> 16],
       [action |-> "repay",            asset |-> "USDC", amount |-> 0,  gas_used |-> 0],
       [action |-> "repay",            asset |-> "DAI",  amount |-> 8,  gas_used |-> 16],
       [action |-> "liquidationcall",  asset |-> "WETH", amount |-> 3,  gas_used |-> 22],
       [action |-> "redeemunderlying", asset |-> "USDC", amount |-> 4,  gas_used |-> 17] >>

\* hours between a wallet's successive rows
TxSteps == {0, 12, 24, 72}

\* the most rows drawn for one wallet
MaxTx == 3

\* the hour of a wallet's k-th row: evenly spaced, or with growing intervals
TxHour(k, step, even) ==
    IF even THEN (k - 1) * step ELSE ((k * (k - 1)) \div 2) * step

\* the wallet's group: row k of kind ks[k] at hour TxHour(k, step, even)
WalletRows(wallet_address, ks, step, even) ==
    [k \in DOMAIN ks |->
        [wallet_address |-> wallet_address,
         action    |-> TxKinds[ks[k]].action,
         asset     |-> TxKinds[ks[k]].asset,
         amount    |-> TxKinds[ks[k]].amount,
         gas_used  |-> TxKinds[ks[k]].gas_used,
         timestamp |-> TxHour(k, step, even)]]

InitFeatures ==
    /\ pc = "features:basic"
    /\ \E n \in 1..MaxTx :
         \E ks \in [1..n -> DOMAIN TxKinds], step \in TxSteps, even \in BOOLEAN :
           args = [wallet_address |-> 1, df |-> WalletRows(1, ks, step, even)]
    /\ loc = [wallet_address |-> 1]
    /\ PipeIdle

\* features.update(self._extract_basic_features(df))
ExtractBasic ==
    /\ pc = "features:basic"
    /\ loc' = Update(loc, _extract_basic_features(args.df))
    /\ pc' = "features:financial"
    /\ UNCHANGED <<args, pipeVars>>

ExtractFinancial ==
    /\ pc = "features:financial"
    /\ loc' = Update(loc, _extract_financial_features(args.df))
    /\ pc' = "features:risk"
    /\ UNCHANGED <<args, pipeVars>>

ExtractRisk ==
    /\ pc = "features:risk"
    /\ loc' = Update(loc, _extract_risk_features(args.df))
    /\ pc' = "features:temporal"
    /\ UNCHANGED <<args, pipeVars>>

ExtractTemporal ==
    /\ pc = "features:temporal"
    /\ loc' = Update(loc, _extract_temporal_features(args.df))
    /\ pc' = "features:network"
    /\ UNCHANGED <<args, pipeVars>>

ExtractNetwork ==
    /\ pc = "features:network"
    /\ loc' = Update(loc, _extract_network_features(args.df))
    /\ pc' = "features:return"
    /\ UNCHANGED <<args, pipeVars>>

NextFeatures ==
    \/ ExtractBasic
    \/ ExtractFinancial
    \/ ExtractRisk
    \/ ExtractTemporal
    \/ ExtractNetwork

SpecFeatures == InitFeatures /\ [][NextFeatures]_vars

\* C6: every field of a returned feature vector is a finite number.
C6_AllFeaturesFinite ==
    pc = "features:return" => \A f \in FeatureCols : IsFinite(loc[f])

\* C7: a wallet with exactly one transaction has tenure_days = 0,
\* max_inactive_days = 0 and a defined activity_consistency_cv.
C7_SingleTransactionWallet ==
    (pc = "features:return" /\ Len(args.df) = 1) =>
        /\ loc.tenure_days = Fin(0)
        /\ loc.max_inactive_days = Fin(0)
        /\ IsFinite(loc.activity_consistency_cv)

\* C8: repay_consistency_score is 1.0 without a borrow, 0.0 with a borrow and
\* no repay, else min(1.0, repay volume / borrow volume); it always lies in
\* [0, 1].
C8_RepayConsistency ==
    pc = "features:return" =>
        LET borrows == ActionCount(args.df, "borrow")
            repays  == ActionCount(args.df, "repay")
            score   == loc.repay_consistency_score
        IN  /\ borrows = 0 => score = Fin(SCALE)
            /\ (borrows > 0 /\ repays = 0) => score = Fin(0)
            /\ IsFinite(score) /\ score.v >= 0 /\ score.v <= SCALE
            /\ (borrows > 0 /\ repays > 0) =>
                  \/ /\ ActionVolume(args.df, "repay") >= ActionVolume(args.df, "borrow")
                     /\ score = Fin(SCALE)
                  \/ /\ ActionVolume(args.df, "repay") < ActionVolume(args.df, "borrow")
                     /\ score.v * ActionVolume(args.df, "borrow")
                            <= SCALE * ActionVolume(args.df, "repay")
                     /\ (score.v + 1) * ActionVolume(args.df, "borrow")
                            > SCALE * ActionVolume(args.df, "repay")

----------------------------------------------------------------------------
(* FeatureEngineering.extract_features: one feature row per wallet.         *)
(* A table is a sequence of rows [wallet_address, action, asset, amount,    *)
(* gas_used, timestamp]; wallet addresses are numbers, ordered as the       *)
(* address strings are.                                                     *)

RECURSIVE GroupKeysFirstSeen(_)
\* the wallets in the order of their first row: groupby(..., sort=False)
GroupKeysFirstSeen(table) ==
    IF table = <<>> THEN <<>>
    ELSE <<Head(table).wallet_address>> \o
         GroupKeysFirstSeen(SelectSeq(Tail(table),
             LAMBDA r : r.wallet_address # Head(table).wallet_address))

\* a missing wallet address; groupby drops the rows whose key is missing
NullWallet == 0

\* df.groupby('wallet_address') iterates over the sorted group keys
GroupKeys(table) ==
    SortSet({table[k].wallet_address : k \in DOMAIN table} \ {NullWallet})

\* the rows of one wallet, in the table's order
WalletGroup(table, wallet) == SelectSeq(table, LAMBDA r : r.wallet_address = wallet)

extract_features(table) ==
    LET keys == GroupKeys(table)
    IN  [i \in DOMAIN keys |->
            _extract_wallet_features(keys[i], WalletGroup(table, keys[i]))]

----------------------------------------------------------------------------
(* DeFiCreditScorer._calculate_base_scores: X, the RobustScaler and the     *)
(* weighted score of each row.                                              *)

\* the features held as whole numbers (counts, days, flags); every other
\* feature is held in 1/SCALE units
CountCols ==
    {"total_transactions", "unique_assets", "deposit_count", "borrow_count",
     "repay_count", "redeem_count", "liquidation_count", "has_liquidations",
     "tenure_days", "days_active", "max_inactive_days", "unique_gas_prices"}

\* X = features_df[feature_cols].fillna(0).replace([inf, -inf], 0), every
\* cell in 1/SCALE units
FillX(fdf) ==
    [i \in DOMAIN fdf |->
        [f \in FeatureCols |->
            IF IsFinite(fdf[i][f])
            THEN (IF f \in CountCols THEN fdf[i][f].v * SCALE ELSE fdf[i][f].v)
            ELSE 0]]

\* 4 * np.nanpercentile(column, 25 * q4), linear interpolation: the virtual
\* index is (n - 1) * q4 / 4
Quartile4(column, q4) ==
    LET sorted == SortScores(column)
        pos    == (Len(column) - 1) * q4
        lo     == (pos \div 4) + 1
        frac   == pos % 4
    IN  IF frac = 0 THEN 4 * sorted[lo]
        ELSE 4 * sorted[lo] + frac * (sorted[lo + 1] - sorted[lo])

\* RobustScaler.fit: center_ is the median and scale_ the interquartile
\* range of each column (both times 4); a zero scale_ is replaced by 1
ScalerFit(X) ==
    [f \in FeatureCols |->
        LET column == [i \in DOMAIN X |-> X[i][f]]
            iqr4   == Quartile4(column, 3) - Quartile4(column, 1)
        IN  [center4 |-> Quartile4(column, 2),
             scale4  |-> IF iqr4 = 0 THEN 4 * SCALE ELSE iqr4]]

\* RobustScaler.transform of one cell followed by np.clip(value, -3, 3):
\* (x - center_) / scale_, in 1/SCALE units
ScaledClipped(x, fit) ==
    LET a == 4 * x - fit.center4
        b == fit.scale4
    IN  IF a >= 3 * b THEN 3 * SCALE
        ELSE IF a <= -3 * b THEN -3 * SCALE
        ELSE ScaledQuot(a, b, SCALE)

\* the row of X_scaled_df read by _calculate_weighted_score: the weighted
\* columns, clipped as np.clip at line 142 leaves them
ScaledRowOf(x, fit) ==
    [f \in WeightedFeatures |-> ScaledClipped(x[f], fit[f])]

\* a scaler that keeps the parameters of its first fit
fit_transform_once(scaler, X) ==
    IF scaler.fitted THEN scaler ELSE [fitted |-> TRUE, params |-> ScalerFit(X)]

\* self.scaler.fit_transform(X) fits anew: whatever an earlier fit left in
\* the scaler is discarded
fit_transform(scaler, X) == [fitted |-> TRUE, params |-> ScalerFit(X)]

\* the rows of the result, X_scaled being the transform by the fitted scaler
_calculate_base_scores(scaler, fdf) ==
    LET X   == FillX(fdf)
        fit == scaler.params
    IN  [i \in DOMAIN fdf |->
            [wallet_address |-> fdf[i].wallet_address,
             base_score |-> _calculate_weighted_score(ScaledRowOf(X[i], fit), fdf[i])]]

----------------------------------------------------------------------------
(* DeFiCreditScorer._apply_risk_adjustments.  IsolationForest and KMeans    *)
(* are fitted with random_state=42, so what fit_predict returns is a fixed  *)
(* function of the matrix it is given; which function is left open.  Rows   *)
(* with equal features get the same flag and the same cluster.  With        *)
(* contamination=0.1 the forest flags the rows that score strictly below    *)
(* the 10th percentile of the scores (linear interpolation), which are at   *)
(* most ceil((n - 1) / 10) of n rows.  The loop over range(5) treats every  *)
(* label alike, so labels are drawn up to renaming.                         *)

RECURSIVE DistinctRows(_)
\* the distinct rows of X, in the order of their first occurrence
DistinctRows(X) ==
    IF X = <<>> THEN <<>>
    ELSE <<Head(X)>> \o DistinctRows(SelectSeq(Tail(X), LAMBDA x : x # Head(X)))

\* for each row of X, its position in DistinctRows(X)
RowClasses(X) ==
    LET distinct == DistinctRows(X)
    IN  [i \in DOMAIN X |-> CHOOSE c \in DOMAIN distinct : distinct[c] = X[i]]

\* labels in 0..n_clusters-1 where each new label is the least unused one
CanonicalLabels(d) ==
    { l \in [1..d -> 0..(n_clusters - 1)] :
        \A j \in 1..d : \A c \in 0..(l[j] - 1) : \E i \in 1..(j - 1) : l[i] = c }

\* the most rows of n that IsolationForest(contamination=0.1) flags
MaxFlagged(n) == (n + 8) \div 10

\* the anomaly masks over the d classes of rows
AnomalyMasks(class, d) ==
    { m \in [1..d -> BOOLEAN] :
        Cardinality({i \in DOMAIN class : m[class[i]]}) <= MaxFlagged(Len(class)) }

\* what the two fit_predict calls may return for X: anomaly_mask (anomaly
\* score -1) and risk_clusters
FitPredictOutcomes(X) ==
    LET class == RowClasses(X)
        d     == SetMax(Range(class))
    IN  { [X |-> X,
           anomaly_mask  |-> [i \in DOMAIN X |-> m[class[i]]],
           risk_clusters |-> [i \in DOMAIN X |-> l[class[i]]]] :
          m \in AnomalyMasks(class, d), l \in CanonicalLabels(d) }

\* cluster factors with thresholds that are not strict
ClusterTenthsNonStrict(fdf, risk_clusters, cluster) ==
    LET members == {i \in DOMAIN fdf : risk_clusters[i] = cluster}
        total   == SumSeq([k \in 1..Cardinality(members) |->
                              fdf[SortSet(members)[k]].liquidation_frequency.v])
    IN  IF total * 10 >= SCALE * Cardinality(members) THEN 8
        ELSE IF total * 100 <= SCALE * Cardinality(members) THEN 11
        ELSE 10

\* tenths by which a cluster's rows are multiplied: 0.8 if the cluster's
\* mean liquidation_frequency is above 0.1, 1.1 if it is below 0.01
ClusterTenths(fdf, risk_clusters, cluster) ==
    LET members == {i \in DOMAIN fdf : risk_clusters[i] = cluster}
        total   == SumSeq([k \in 1..Cardinality(members) |->
                              fdf[SortSet(members)[k]].liquidation_frequency.v])
    IN  IF total * 10 > SCALE * Cardinality(members) THEN 8
        ELSE IF total * 100 < SCALE * Cardinality(members) THEN 11
        ELSE 10

\* risk_adjusted_score (1/(PSCALE * RiskDen) points): base_score, times 0.7
\* for an anomaly, times the factor of the row's cluster
_apply_risk_adjustments(sdf, fdf, outcome) ==
    [i \in DOMAIN sdf |->
        [wallet_address |-> sdf[i].wallet_address,
         base_score |-> sdf[i].base_score,
         risk_adjusted_score |->
             (sdf[i].base_score
                * (IF outcome.anomaly_mask[i] THEN 7 ELSE 10)
                * ClusterTenths(fdf, outcome.risk_clusters, outcome.risk_clusters[i])
                * RiskDen) \div 100]]

----------------------------------------------------------------------------
(* DeFiCreditScorer.score_wallets, stage by stage.  scorer.scaler is the    *)
(* state of self.scaler; scorer.fit_predict records what the two seeded     *)
(* estimators have answered for the matrix self.scaler.transform(X), named  *)
(* by X and the scaler's parameters.                                        *)

\* self.scaler = RobustScaler()
RobustScaler == [fitted |-> FALSE]

\* result_df = scores_df.merge(features_df, on='wallet_address', how='left')
MergeLeft(sdf, fdf) ==
    [i \in DOMAIN sdf |->
        LET j == CHOOSE j \in DOMAIN fdf : fdf[j].wallet_address = sdf[i].wallet_address
        IN  Update(fdf[j], sdf[i])]

\* the wallets drawn: "A" makes a single deposit of 100; "B" runs Cycles
\* cycles of deposit 100 / borrow 50 / repay 50, one a day, and so repays in
\* full; "C" deposits, borrows and is liquidated, and never repays
Profiles == <<"A", "B", "C">>

Cycles == 10

Tx(wallet, action, amount, gas_used, timestamp) ==
    [wallet_address |-> wallet, action |-> action, asset |-> "USDC",
     amount |-> amount, gas_used |-> gas_used, timestamp |-> timestamp]

CycleRows(wallet, c) ==
    << Tx(wallet, "deposit", 100, 15, HoursPerDay * (c - 1)),
       Tx(wallet, "borrow",   50, 18, HoursPerDay * (c - 1) + 1),
       Tx(wallet, "repay",    50, 16, HoursPerDay * (c - 1) + 12) >>

RECURSIVE CyclesRows(_, _)
CyclesRows(wallet, c) ==
    IF c = 0 THEN <<>> ELSE CyclesRows(wallet, c - 1) \o CycleRows(wallet, c)

ProfileRows(wallet, profile) ==
    CASE profile = "A" -> << Tx(wallet, "deposit", 100, 15, 0) >>
      [] profile = "B" -> CyclesRows(wallet, Cycles)
      [] profile = "C" -> << Tx(wallet, "deposit", 100, 15, 0),
                             Tx(wallet, "borrow", 50, 18, 1),
                             Tx(wallet, "liquidationcall", 50, 22, HoursPerDay * 3) >>

RECURSIVE PopulationRows(_, _)
\* the transactions of wallets 1..n, wallet i of profile Profiles[ps[i]]
PopulationRows(ps, n) ==
    IF n = 0 THEN <<>>
    ELSE PopulationRows(ps, n - 1) \o ProfileRows(n, Profiles[ps[n]])

\* the largest population drawn
MaxWallets == 5

\* score_wallets calls made on one scorer
MaxRuns == 2

\* the odd rows of a table, then the even ones
Shuffle(table) ==
    LET odd  == (Len(table) + 1) \div 2
    IN  [i \in DOMAIN table |->
            IF i <= odd THEN table[2 * i - 1] ELSE table[2 * (i - odd)]]

\* the same transactions, presented in another order
Presentations(table) == {table, Reverse(table), Shuffle(table)}

Init ==
    /\ pc = "score_wallets:extract"
    /\ args = Idle
    /\ loc = Idle
    /\ \E n \in 3..MaxWallets :
         \E ps \in NonDecreasing(n, 1, Len(Profiles)) :
           df = PopulationRows(ps, n)
    /\ features_df = <<>>
    /\ scores_df = <<>>
    /\ scorer = [scaler |-> RobustScaler, fit_predict |-> {}]
    /\ run = 1
    /\ results = <<>>

\* a table that is never taken for empty
emptyNever(table) == FALSE

\* DataFrame.empty: the table has no rows
empty(table) == Len(table) = 0

\* features_df = self.feature_engineer.extract_features(df); the table holds
\* parsed timestamps and numbers, which lines 28-30 leave as they are;
\* if features_df.empty the call returns an empty table
ExtractFeatures ==
    /\ pc = "score_wallets:extract"
    /\ features_df' = extract_features(df)
    /\ pc' = IF empty(features_df') THEN "score_wallets:empty"
             ELSE "score_wallets:base"
    /\ UNCHANGED <<args, loc, df, scores_df, scorer, run, results>>

\* scores_df = self._calculate_base_scores(features_df)
CalculateBaseScores ==
    /\ pc = "score_wallets:base"
    /\ LET fitted == fit_transform(scorer.scaler, FillX(features_df))
       IN  /\ scores_df' = _calculate_base_scores(fitted, features_df)
           /\ scorer' = [scorer EXCEPT !.scaler = fitted]
    /\ pc' = "score_wallets:risk"
    /\ UNCHANGED <<args, loc, df, features_df, run, results>>

\* scores_df = self._apply_risk_adjustments(scores_df, features_df)
ApplyRiskAdjustments ==
    /\ pc = "score_wallets:risk"
    /\ Len(features_df) >= n_clusters
    /\ LET X    == FillX(features_df)
           seen == {o \in scorer.fit_predict : o.X = X /\ o.scaler = scorer.scaler}
       IN  \E outcome \in (IF seen # {} THEN seen
                            ELSE { Update(o, [scaler |-> scorer.scaler]) :
                                     o \in FitPredictOutcomes(X) }) :
             /\ scores_df' = _apply_risk_adjustments(scores_df, features_df, outcome)
             /\ scorer' = [scorer EXCEPT !.fit_predict = @ \cup {outcome}]
    /\ pc' = "score_wallets:normalize"
    /\ UNCHANGED <<args, loc, df, features_df, run, results>>

\* KMeans.fit_predict raises ValueError for fewer samples than n_clusters;
\* nothing in score_wallets or main catches it
RiskAdjustmentsRaise ==
    /\ pc = "score_wallets:risk"
    /\ Len(features_df) < n_clusters
    /\ pc' = "score_wallets:ValueError"
    /\ UNCHANGED <<args, loc, df, features_df, scores_df, scorer, run, results>>

\* scores_df = self._normalize_scores(scores_df)
NormalizeScores ==
    /\ pc = "score_wallets:normalize"
    /\ scores_df' = _normalize_scores(scores_df)
    /\ pc' = "score_wallets:merge"
    /\ UNCHANGED <<args, loc, df, features_df, scorer, run, results>>

\* result_df = scores_df.merge(...); return result_df
MergeAndReturn ==
    /\ pc = "score_wallets:merge"
    /\ results' = Append(results, MergeLeft(scores_df, features_df))
    /\ pc' = "score_wallets:return"
    /\ UNCHANGED <<args, loc, df, features_df, scores_df, scorer, run>>

\* the caller scores the same transactions again, in any presentation
ScoreAgain ==
    /\ pc = "score_wallets:return"
    /\ run < MaxRuns
    /\ \E table \in Presentations(df) : df' = table
    /\ features_df' = <<>>
    /\ scores_df' = <<>>
    /\ run' = run + 1
    /\ pc' = "score_wallets:extract"
    /\ UNCHANGED <<args, loc, scorer, results>>

Next ==
    \/ ExtractFeatures
    \/ CalculateBaseScores
    \/ ApplyRiskAdjustments
    \/ RiskAdjustmentsRaise
    \/ NormalizeScores
    \/ MergeAndReturn
    \/ ScoreAgain

Spec == Init /\ [][Next]_vars

\* the four score columns of a result row
ScoreColumns(row) ==
    <<row.base_score, row.risk_adjusted_score, row.credit_score, row.score_category>>

\* C2: score_wallets calls on the same transactions, however presented,
\* return the same base_score, risk_adjusted_score, credit_score and
\* score_category for every wallet.
C2_Idempotent ==
    \A j \in DOMAIN results, k \in DOMAIN results :
        \A a \in DOMAIN results[j], b \in DOMAIN results[k] :
            results[j][a].wallet_address = results[k][b].wallet_address
                => ScoreColumns(results[j][a]) = ScoreColumns(results[k][b])

\* the second call has returned; its table presents the wallets in another
\* order than the first call's (there the wallets come in sorted order) and
\* does not keep a wallet's transactions in time order; a risk adjustment
\* was applied and the wallets do not all score alike
C2_Witness ==
    /\ Len(results) = 2
    /\ run = 2
    /\ GroupKeysFirstSeen(df) # GroupKeys(df)
    /\ \E w \in Range(GroupKeys(df)) :
          Column(WalletGroup(df, w), "timestamp")
              # SortScores(Column(WalletGroup(df, w), "timestamp"))
    /\ \E a \in DOMAIN results[1] :
          results[1][a].risk_adjusted_score # results[1][a].base_score * RiskDen
    /\ \E a \in DOMAIN results[1], b \in DOMAIN results[1] :
          results[1][a].credit_score # results[1][b].credit_score

\* the population of the scenario: wallet 1 of profile A, 2 of B, 3 of C
ScenarioABC == PopulationRows(<<1, 2, 3>>, 3)

\* credit_score x below credit_score y
RatLess(x, y) == x.n * y.d < y.n * x.d

\* C3: for the population A, B, C score_wallets completes and returns
\* score(C) < score(A), score(C) < score(B) and score(B) >= score(A).
C3_EndToEnd ==
    (df = ScenarioABC /\ run = 1 /\ pc \notin {"score_wallets:extract",
          "score_wallets:base", "score_wallets:risk", "score_wallets:normalize",
          "score_wallets:merge"}) =>
        /\ pc = "score_wallets:return"
        /\ LET score == [w \in 1..3 |-> results[1][w].credit_score]
           IN  /\ RatLess(score[3], score[1])
               /\ RatLess(score[3], score[2])
               /\ ~RatLess(score[2], score[1])

\* C13: for a non-empty table score_wallets returns one row per distinct
\* wallet address, and each row joins the scores and the features of that
\* same wallet.
C13_OneRowPerWallet ==
    (df # <<>> /\ pc \in {"score_wallets:return", "score_wallets:ValueError"}) =>
        /\ pc = "score_wallets:return"
        /\ LET result == results[Len(results)]
               keys   == GroupKeys(df)
           IN  /\ Len(result) = Len(keys)
               /\ \A i \in DOMAIN result :
                     /\ result[i].wallet_address = keys[i]
                     /\ result[i].base_score = scores_df[i].base_score
                     /\ scores_df[i].wallet_address = keys[i]
                     /\ \A f \in FeatureCols :
                           result[i][f] = features_df[i][f]
                     /\ features_df[i].wallet_address = keys[i]

(* Two populations scored on one scorer, then the second one on a freshly   *)
(* constructed scorer.  args holds the two populations.                     *)

\* the populations scored first: profiles A, B, C in turn, or C throughout
FirstPopulations ==
    { PopulationRows([i \in 1..n_clusters |-> (i % Len(Profiles)) + 1], n_clusters),
      PopulationRows([i \in 1..n_clusters |-> Len(Profiles)], n_clusters) }

InitRuns ==
    /\ pc = "score_wallets:extract"
    /\ \E first \in FirstPopulations :
         \E ps \in NonDecreasing(n_clusters, 1, Len(Profiles)) :
           /\ PopulationRows(ps, n_clusters) # first
           /\ args = [first |-> first, second |-> PopulationRows(ps, n_clusters)]
           /\ df = first
    /\ loc = Idle
    /\ features_df = <<>>
    /\ scores_df = <<>>
    /\ scorer = [scaler |-> RobustScaler, fit_predict |-> {}]
    /\ run = 1
    /\ results = <<>>

\* scorer.score_wallets(P2) after scorer.score_wallets(P1)
ScoreSecond ==
    /\ pc = "score_wallets:return"
    /\ run = 1
    /\ df' = args.second
    /\ features_df' = <<>>
    /\ scores_df' = <<>>
    /\ run' = 2
    /\ pc' = "score_wallets:extract"
    /\ UNCHANGED <<args, loc, scorer, results>>

\* DeFiCreditScorer().score_wallets(P2): __init__ builds a new scaler and
\* new estimators; what the seeded estimators answer for a matrix is the
\* same for every instance
ScoreFresh ==
    /\ pc = "score_wallets:return"
    /\ run = 2
    /\ scorer' = [scorer EXCEPT !.scaler = RobustScaler]
    /\ df' = args.second
    /\ features_df' = <<>>
    /\ scores_df' = <<>>
    /\ run' = 3
    /\ pc' = "score_wallets:extract"
    /\ UNCHANGED <<args, loc, results>>

NextRuns ==
    \/ ExtractFeatures
    \/ CalculateBaseScores
    \/ ApplyRiskAdjustments
    \/ NormalizeScores
    \/ MergeAndReturn
    \/ ScoreSecond
    \/ ScoreFresh

SpecRuns == InitRuns /\ [][NextRuns]_vars

\* C14: what score_wallets(P2) returns on a scorer that has scored P1 is
\* what it returns on a freshly constructed scorer.
C14_NoStateCarried ==
    Len(results) = 3 => results[2] = results[3]

\* the three calls have returned, and the scaler fitted on P1 had other
\* parameters than the one fitted on P2
C14_Witness ==
    /\ Len(results) = 3
    /\ results[1] # results[2]
    /\ ScalerFit(FillX(extract_features(args.first))) # scorer.scaler.params

(* main: load_data, score_wallets, save_results.                            *)
(* args.input is the input file; args.entry tells whether main runs or a    *)
(* caller hands a table straight to score_wallets.                          *)

\* the files drawn: unreadable, holding no transaction, or holding the
\* transactions of a population that can be clustered
InputFiles ==
    {[readable |-> FALSE, rows |-> <<>>], [readable |-> TRUE, rows |-> <<>>]}
    \cup UNION { { [readable |-> TRUE, rows |-> PopulationRows(ps, n)] :
                     ps \in NonDecreasing(n, 1, Len(Profiles)) } :
                 n \in n_clusters..MaxWallets }

\* the tables handed straight to score_wallets: no row, or rows whose
\* wallet address is missing
DirectTables ==
    {<<>>, ProfileRows(NullWallet, "A"), ProfileRows(NullWallet, "C")}

InitMain ==
    /\ \/ /\ pc = "main:load"
          /\ \E file \in InputFiles : args = [entry |-> "main", input |-> file]
          /\ df = <<>>
       \/ /\ pc = "score_wallets:extract"
          /\ args = [entry |-> "score_wallets"]
          /\ df \in DirectTables
    /\ loc = Idle
    /\ features_df = <<>>
    /\ scores_df = <<>>
    /\ scorer = [scaler |-> RobustScaler, fit_predict |-> {}]
    /\ run = 1
    /\ results = <<>>

\* df = scorer.load_data(args.input): an error while loading yields an
\* empty table
LoadData ==
    /\ pc = "main:load"
    /\ df' = IF args.input.readable THEN args.input.rows ELSE <<>>
    /\ pc' = "main:loaded"
    /\ UNCHANGED <<args, loc, features_df, scores_df, scorer, run, results>>

\* if df.empty: print("Failed to load data. Exiting."); return
\* else results = scorer.score_wallets(df)
MainCheckData ==
    /\ pc = "main:loaded"
    /\ pc' = IF empty(df) THEN "main:return:failed_to_load"
             ELSE "score_wallets:extract"
    /\ UNCHANGED <<args, loc, df, features_df, scores_df, scorer, run, results>>

\* print("No features extracted. Check input data."); return pd.DataFrame()
ReturnEmpty ==
    /\ pc = "score_wallets:empty"
    /\ results' = Append(results, <<>>)
    /\ pc' = "score_wallets:return"
    /\ UNCHANGED <<args, loc, df, features_df, scores_df, scorer, run>>

\* if results.empty: print("Failed to generate scores. Exiting."); return
MainCheckResults ==
    /\ pc = "score_wallets:return"
    /\ args.entry = "main"
    /\ pc' = IF empty(results[Len(results)]) THEN "main:return:failed_to_score"
             ELSE "main:save"
    /\ UNCHANGED <<args, loc, df, features_df, scores_df, scorer, run, results>>

output_cols ==
    <<"wallet_address", "credit_score", "score_category", "base_score",
      "risk_adjusted_score", "total_transactions", "total_volume",
      "tenure_days", "liquidation_count", "repay_consistency_score">>

\* scorer.save_results(results, args.output), then
\* print("=== Credit scoring completed successfully! ===")
SaveResults ==
    /\ pc = "main:save"
    /\ loc' = [output_df |->
                 [i \in DOMAIN results[Len(results)] |->
                     [c \in Range(output_cols) |-> results[Len(results)][i][c]]]]
    /\ pc' = "main:return:completed"
    /\ UNCHANGED <<args, df, features_df, scores_df, scorer, run, results>>

NextMain ==
    \/ LoadData
    \/ MainCheckData
    \/ ExtractFeatures
    \/ ReturnEmpty
    \/ CalculateBaseScores
    \/ ApplyRiskAdjustments
    \/ NormalizeScores
    \/ MergeAndReturn
    \/ MainCheckResults
    \/ SaveResults

SpecMain == InitMain /\ [][NextMain]_vars

\* the input of the run holds no transaction, or no wallet
EmptyInput == pc # "main:load" /\ GroupKeys(df) = <<>>

\* C11: on an empty input no scaler, anomaly or cluster fit, no normalisation
\* and no save_results is reached; score_wallets returns an empty table and
\* main ends in one of its two failure exits, never in the completed one.
C11_EmptyInputFails ==
    EmptyInput =>
        /\ pc \in {"main:loaded", "main:return:failed_to_load",
                   "score_wallets:extract", "score_wallets:empty",
                   "score_wallets:return", "main:return:failed_to_score"}
        /\ pc = "score_wallets:return" => results = << <<>> >>
        /\ pc # "score_wallets:return" => results = <<>>
        /\ scorer = [scaler |-> RobustScaler, fit_predict |-> {}]
        /\ scores_df = <<>>
        /\ loc = Idle

\* main has loaded a readable file without transactions and has exited
C11_Witness ==
    /\ pc = "main:return:failed_to_load"
    /\ args.input.readable
    /\ empty(df)

----------------------------------------------------------------------------
(* FeatureEngineering.extract_features on a table as the caller holds it:   *)
(* the cells of timestamp, amount and gas_used are strings, missing values  *)
(* or already converted values. df is the caller's table, args.df what it   *)
(* held when the call was made.                                             *)

Cell(kind, v) == [kind |-> kind, v |-> v]

\* pd.to_datetime(column): a missing value becomes NaT, a string that is not
\* a date raises (no errors='coerce')
to_datetime(cell) ==
    CASE cell.kind = "str"  -> Cell("Timestamp", cell.v)
      [] cell.kind = "none" -> Cell("NaT", 0)
      [] OTHER              -> cell

\* some timestamp of the table cannot be parsed
Unparsable(table) == \E i \in DOMAIN table : to_datetime(table[i].timestamp).kind = "bad"

\* pd.to_numeric(column, errors='coerce').fillna(0)
to_numeric_fillna(cell) ==
    CASE cell.kind = "str"   -> Cell("float", cell.v)
      [] cell.kind = "float" -> cell
      [] OTHER               -> Cell("float", 0)

\* the converted table as the extractors read it: numbers and hours
Plain(table) ==
    [i \in DOMAIN table |->
        [wallet_address |-> table[i].wallet_address,
         action    |-> table[i].action,
         asset     |-> table[i].asset,
         amount    |-> table[i].amount.v,
         gas_used  |-> table[i].gas_used.v,
         timestamp |-> table[i].timestamp.v]]

NaTRows(group) == {i \in DOMAIN group : group[i].timestamp.kind = "NaT"}

\* sorted(dates) compares NaT with a date and raises TypeError
MixedNaT(group) == NaTRows(group) # {} /\ NaTRows(group) # DOMAIN group

\* the temporal features of a wallet whose timestamps are all NaT: tenure
\* is NaT.days = nan, max(nan, 1) is nan, no day is active
TemporalAllNaT ==
    [tenure_days                  |-> NaN,
     activity_frequency           |-> NaN,
     activity_consistency_cv      |-> Fin(0),
     avg_time_between_tx_hours    |-> Fin(0),
     median_time_between_tx_hours |-> Fin(0),
     weekend_activity_ratio       |-> Fin(0),
     days_active                  |-> Fin(0),
     max_inactive_days            |-> Fin(0)]

\* lines 32-38 on the converted table
extract_features_converted(table) ==
    LET keys == GroupKeys(table)
    IN  [i \in DOMAIN keys |->
            LET group == WalletGroup(table, keys[i])
                features == _extract_wallet_features(keys[i], Plain(group))
            IN  IF NaTRows(group) = {} THEN features
                ELSE Update(features, TemporalAllNaT)]

\* the transactions drawn: well-formed, or with one defective field
RawKinds ==
    << [amount |-> Cell("str", 5),  gas_used |-> Cell("str", 15), timestamp |-> "str"],
       [amount |-> Cell("bad", 0),  gas_used |-> Cell("str", 15), timestamp |-> "str"],
       [amount |-> Cell("none", 0), gas_used |-> Cell("str", 15), timestamp |-> "str"],
       [amount |-> Cell("str", 5),  gas_used |-> Cell("bad", 0),  timestamp |-> "str"],
       [amount |-> Cell("str", 5),  gas_used |-> Cell("str", 15), timestamp |-> "bad"],
       [amount |-> Cell("str", 5),  gas_used |-> Cell("str", 15), timestamp |-> "none"] >>

RawHours == {0, 2 * HoursPerDay}

RawRows ==
    { [wallet_address |-> w, action |-> "deposit", asset |-> "USDC",
       amount    |-> RawKinds[k].amount,
       gas_used  |-> RawKinds[k].gas_used,
       timestamp |-> Cell(RawKinds[k].timestamp,
                          IF RawKinds[k].timestamp = "str" THEN h ELSE 0)] :
      w \in 1..2, k \in DOMAIN RawKinds, h \in RawHours }

\* the longest table drawn
MaxRawTx == 2

InitExtract ==
    /\ pc = "extract_features:to_datetime"
    /\ \E n \in 1..MaxRawTx : \E table \in [1..n -> RawRows] :
         /\ df = table
         /\ args = [df |-> table]
    /\ loc = Idle
    /\ features_df = <<>>
    /\ scores_df = <<>>
    /\ scorer = Idle
    /\ run = 0
    /\ results = <<>>

\* df['timestamp'] = pd.to_datetime(df['timestamp'])
ToDatetime ==
    /\ pc = "extract_features:to_datetime"
    /\ IF Unparsable(df)
       THEN /\ pc' = "extract_features:DateParseError"
            /\ df' = df
       ELSE /\ pc' = "extract_features:amount"
            /\ df' = [i \in DOMAIN df |->
                        [df[i] EXCEPT !.timestamp = to_datetime(@)]]
    /\ UNCHANGED <<args, loc, features_df, scores_df, scorer, run, results>>

\* df['amount'] = pd.to_numeric(df['amount'], errors='coerce').fillna(0)
ToNumericAmount ==
    /\ pc = "extract_features:amount"
    /\ df' = [i \in DOMAIN df |-> [df[i] EXCEPT !.amount = to_numeric_fillna(@)]]
    /\ pc' = "extract_features:gas_used"
    /\ UNCHANGED <<args, loc, features_df, scores_df, scorer, run, results>>

\* df['gas_used'] = pd.to_numeric(df['gas_used'], errors='coerce').fillna(0)
ToNumericGas ==
    /\ pc = "extract_features:gas_used"
    /\ df' = [i \in DOMAIN df |-> [df[i] EXCEPT !.gas_used = to_numeric_fillna(@)]]
    /\ pc' = "extract_features:groupby"
    /\ UNCHANGED <<args, loc, features_df, scores_df, scorer, run, results>>

\* the loop over df.groupby('wallet_address') and the returned table;
\* _calculate_max_inactive_period raises on a wallet that has both dated and
\* undated transactions
GroupAndExtract ==
    /\ pc = "extract_features:groupby"
    /\ IF \E w \in Range(GroupKeys(df)) : MixedNaT(WalletGroup(df, w))
       THEN /\ pc' = "extract_features:TypeError"
            /\ features_df' = features_df
       ELSE /\ pc' = "extract_features:return"
            /\ features_df' = extract_features_converted(df)
    /\ UNCHANGED <<args, loc, df, scores_df, scorer, run, results>>

NextExtract ==
    \/ ToDatetime
    \/ ToNumericAmount
    \/ ToNumericGas
    \/ GroupAndExtract

SpecExtract == InitExtract /\ [][NextExtract]_vars

\* C12: no defective field of a single transaction aborts extract_features;
\* the call returns one feature row per wallet of the table, counting every
\* transaction of the wallet.
C12_FieldTolerant ==
    /\ pc \notin {"extract_features:DateParseError", "extract_features:TypeError"}
    /\ pc = "extract_features:return" =>
          /\ Len(features_df) = Len(GroupKeys(args.df))
          /\ \A i \in DOMAIN features_df :
                /\ features_df[i].wallet_address = GroupKeys(args.df)[i]
                /\ features_df[i].total_transactions
                      = Fin(Len(WalletGroup(args.df, GroupKeys(args.df)[i])))

\* C15: the table handed to extract_features is left as it was: no cell of
\* timestamp, amount or gas_used is overwritten and no column is added.
C15_TableUnchanged == df = args.df

----------------------------------------------------------------------------
(* DeFiCreditScorer._apply_heuristic_bonuses, statement by statement.       *)
(* args.features is the raw feature row, loc.bonus the local `bonus`.       *)

\* the most liquidations of a row drawn
MaxLiquidations == 2

\* rows at and next to every threshold; tenure may be missing (NaN)
BonusRows ==
    { [tenure_days |-> t, total_transactions |-> Fin(n), unique_assets |-> Fin(a),
       repay_ratio |-> Fin(r), borrow_count |-> Fin(b), liquidation_count |-> Fin(l),
       bot_like_regularity |-> Fin(g)] :
      t \in {Fin(180), Fin(181), Fin(365), Fin(366), NaN},
      n \in {20, 21, 50, 51}, a \in {3, 4, 5, 6},
      r \in {SCALE - 1, SCALE}, b \in {0, 1}, l \in 0..MaxLiquidations,
      g \in {(7 * SCALE) \div 10, (7 * SCALE) \div 10 + 1} }

InitBonuses ==
    /\ pc = "bonuses:tenure"
    /\ \E features \in BonusRows : args = [features |-> features]
    /\ loc = [bonus |-> 0]
    /\ PipeIdle

BonusTenure ==
    /\ pc = "bonuses:tenure"
    /\ loc' = [bonus |-> IF FGt(Get(args.features, "tenure_days"), 365)
                         THEN loc.bonus + 50
                         ELSE IF FGt(Get(args.features, "tenure_days"), 180)
                         THEN loc.bonus + 25
                         ELSE loc.bonus]
    /\ pc' = "bonuses:transactions"
    /\ UNCHANGED <<args, pipeVars>>

BonusTransactions ==
    /\ pc = "bonuses:transactions"
    /\ loc' = [bonus |-> IF FGt(Get(args.features, "total_transactions"), 50)
                         THEN loc.bonus + 30
                         ELSE IF FGt(Get(args.features, "total_transactions"), 20)
                         THEN loc.bonus + 15
                         ELSE loc.bonus]
    /\ pc' = "bonuses:assets"
    /\ UNCHANGED <<args, pipeVars>>

BonusAssets ==
    /\ pc = "bonuses:assets"
    /\ loc' = [bonus |-> IF FGt(Get(args.features, "unique_assets"), 5)
                         THEN loc.bonus + 20
                         ELSE IF FGt(Get(args.features, "unique_assets"), 3)
                         THEN loc.bonus + 10
                         ELSE loc.bonus]
    /\ pc' = "bonuses:repay"
    /\ UNCHANGED <<args, pipeVars>>

BonusRepay ==
    /\ pc = "bonuses:repay"
    /\ loc' = [bonus |-> IF FGe(Get(args.features, "repay_ratio"), SCALE)
                            /\ FGt(Get(args.features, "borrow_count"), 0)
                         THEN loc.bonus + 40
                         ELSE loc.bonus]
    /\ pc' = "bonuses:liquidation"
    /\ UNCHANGED <<args, pipeVars>>

BonusLiquidation ==
    /\ pc = "bonuses:liquidation"
    /\ loc' = [bonus |-> IF FGt(Get(args.features, "liquidation_count"), 0)
                         THEN loc.bonus - Get(args.features, "liquidation_count").v * 30
                         ELSE loc.bonus]
    /\ pc' = "bonuses:bot"
    /\ UNCHANGED <<args, pipeVars>>

BonusBot ==
    /\ pc = "bonuses:bot"
    /\ loc' = [bonus |-> IF FGt(Get(args.features, "bot_like_regularity"), (7 * SCALE) \div 10)
                         THEN loc.bonus - 100
                         ELSE loc.bonus]
    /\ pc' = "bonuses:return"
    /\ UNCHANGED <<args, pipeVars>>

NextBonuses ==
    \/ BonusTenure
    \/ BonusTransactions
    \/ BonusAssets
    \/ BonusRepay
    \/ BonusLiquidation
    \/ BonusBot

SpecBonuses == InitBonuses /\ [][NextBonuses]_vars

\* x is a number above c
Above(x, c) == IsFinite(x) /\ x.v > c

\* the bonus the tiers add up to
TierSum(f) ==
    (IF Above(f.tenure_days, 365) THEN 50 ELSE IF Above(f.tenure_days, 180) THEN 25 ELSE 0)
    + (IF Above(f.total_transactions, 50) THEN 30
       ELSE IF Above(f.total_transactions, 20) THEN 15 ELSE 0)
    + (IF Above(f.unique_assets, 5) THEN 20 ELSE IF Above(f.unique_assets, 3) THEN 10 ELSE 0)
    + (IF ~Above(f.repay_ratio, SCALE - 1) \/ ~Above(f.borrow_count, 0) THEN 0 ELSE 40)
    - 30 * f.liquidation_count.v
    - (IF Above(f.bot_like_regularity, 700 * (SCALE \div 1000)) THEN 100 ELSE 0)

\* C16: _apply_heuristic_bonuses returns the sum of the tenure, transaction
\* and asset tiers (one tier each, strict thresholds), +40 for a repay_ratio
\* of at least 1 with a borrow, -30 per liquidation and -100 for
\* bot_like_regularity above 0.7.
C16_BonusSum ==
    pc = "bonuses:return" =>
        /\ loc.bonus = TierSum(args.features)
        /\ _apply_heuristic_bonuses(args.features) = TierSum(args.features)

\* a row exactly at the thresholds 365, 50, 5 and 0.7 that repaid in full
\* and was liquidated has earned the lower tiers
C16_Witness ==
    /\ pc = "bonuses:return"
    /\ args.features.tenure_days = Fin(365)
    /\ args.features.total_transactions = Fin(50)
    /\ args.features.unique_assets = Fin(5)
    /\ args.features.bot_like_regularity = Fin((7 * SCALE) \div 10)
    /\ args.features.repay_ratio = Fin(SCALE)
    /\ args.features.borrow_count = Fin(1)
    /\ args.features.liquidation_count = Fin(MaxLiquidations)
    /\ loc.bonus = 25 + 15 + 10 + 40 - 30 * MaxLiquidations

----------------------------------------------------------------------------
(* DeFiCreditScorer._apply_risk_adjustments, statement by statement, on     *)
(* n_clusters wallets.  args holds scores_df, features_df and what the two  *)
(* fit_predict calls returned; loc.scores_df is the table being adjusted    *)
(* and loc.cluster the loop variable.                                       *)

\* liquidation frequencies drawn (1/SCALE): clusters with a mean of exactly
\* 0.01 and of exactly 0.1 occur
RiskFrequencies == <<0, SCALE \div 100, SCALE \div 10, SCALE \div 5>>

\* the base score of a wallet of 100 transactions of which the share f
\* (1/SCALE) are liquidations, its scaled features being at the medians:
\* 500, the bonus for more than 50 transactions, -30 per liquidation
RiskBaseScore(f) ==
    _calculate_weighted_score(
        [c \in WeightedFeatures |-> 0],
        [total_transactions |-> Fin(100),
         liquidation_count  |-> Fin((100 * f) \div SCALE)])

InitRisk ==
    /\ pc = "risk:anomaly"
    /\ \E fs \in NonDecreasing(n_clusters, 1, Len(RiskFrequencies)),
          l \in CanonicalLabels(n_clusters),
          m \in AnomalyMasks([i \in 1..n_clusters |-> i], n_clusters) :
         args = [scores_df |-> [i \in 1..n_clusters |->
                     [wallet_address |-> i,
                      base_score |-> RiskBaseScore(RiskFrequencies[fs[i]])]],
                 features_df |-> [i \in 1..n_clusters |->
                     [wallet_address |-> i,
                      liquidation_frequency |-> Fin(RiskFrequencies[fs[i]])]],
                 outcome |-> [anomaly_mask |-> m, risk_clusters |-> l]]
    /\ loc = Idle
    /\ PipeIdle

\* scores_df['risk_adjusted_score'] = scores_df['base_score'].copy()
\* scores_df.loc[anomaly_mask, 'risk_adjusted_score'] *= 0.7
RiskAnomaly ==
    /\ pc = "risk:anomaly"
    /\ loc' = [cluster |-> 0,
               scores_df |-> [i \in DOMAIN args.scores_df |->
                   [wallet_address |-> args.scores_df[i].wallet_address,
                    base_score |-> args.scores_df[i].base_score,
                    risk_adjusted_score |->
                        IF args.outcome.anomaly_mask[i]
                        THEN (args.scores_df[i].base_score * RiskDen * 7) \div 10
                        ELSE args.scores_df[i].base_score * RiskDen]]]
    /\ pc' = "risk:loop"
    /\ UNCHANGED <<args, pipeVars>>

\* one pass of `for cluster in range(5)`
RiskClusterLoop ==
    /\ pc = "risk:loop"
    /\ loc.cluster < n_clusters
    /\ LET cluster_mask == {i \in DOMAIN args.features_df :
                               args.outcome.risk_clusters[i] = loc.cluster}
           count == Cardinality(cluster_mask)
           total == SumSeq([k \in 1..count |->
                       args.features_df[SortSet(cluster_mask)[k]].liquidation_frequency.v])
           tenths == IF count > 0 /\ total * 10 > SCALE * count THEN 8
                     ELSE IF count > 0 /\ total * 100 < SCALE * count THEN 11
                     ELSE 10
       IN  loc' = [cluster |-> loc.cluster + 1,
                   scores_df |-> [i \in DOMAIN loc.scores_df |->
                       IF i \in cluster_mask
                       THEN [loc.scores_df[i] EXCEPT !.risk_adjusted_score = (@ * tenths) \div 10]
                       ELSE loc.scores_df[i]]]
    /\ pc' = "risk:loop"
    /\ UNCHANGED <<args, pipeVars>>

\* return scores_df
RiskReturn ==
    /\ pc = "risk:loop"
    /\ loc.cluster = n_clusters
    /\ loc' = [scores_df |-> loc.scores_df]
    /\ pc' = "risk:return"
    /\ UNCHANGED <<args, pipeVars>>

NextRisk ==
    \/ RiskAnomaly
    \/ RiskClusterLoop
    \/ RiskReturn

SpecRisk == InitRisk /\ [][NextRisk]_vars

\* the members of the cluster of wallet i
ClusterOf(i) ==
    {j \in DOMAIN args.features_df :
        args.outcome.risk_clusters[j] = args.outcome.risk_clusters[i]}

\* the sum of the liquidation frequencies (1/SCALE) of a set of wallets
RECURSIVE FrequencySum(_)
FrequencySum(members) ==
    IF members = {} THEN 0
    ELSE LET j == CHOOSE j \in members : TRUE
         IN  args.features_df[j].liquidation_frequency.v + FrequencySum(members \ {j})

\* c in hundredths: 80 for a cluster mean above 0.10, 110 below 0.01
ClusterHundredths(i) ==
    LET count == Cardinality(ClusterOf(i))
        total == FrequencySum(ClusterOf(i))
    IN  IF 10 * total > count * SCALE THEN 80
        ELSE IF 100 * total < count * SCALE THEN 110
        ELSE 100

\* C18: after _apply_risk_adjustments every risk_adjusted_score is
\* base_score * a * c, a = 0.7 for a flagged wallet and 1 otherwise, c the
\* factor of the wallet's cluster (0.8 above a mean liquidation_frequency of
\* 0.10, 1.1 below 0.01, 1 otherwise, the two thresholds included).
C18_RiskAdjusted ==
    pc = "risk:return" =>
        /\ \A i \in DOMAIN loc.scores_df :
              /\ loc.scores_df[i].base_score = args.scores_df[i].base_score
              /\ loc.scores_df[i].risk_adjusted_score * 1000
                    = args.scores_df[i].base_score * RiskDen
                        * (IF args.outcome.anomaly_mask[i] THEN 7 ELSE 10)
                        * ClusterHundredths(i)
        /\ loc.scores_df
              = _apply_risk_adjustments(args.scores_df, args.features_df, args.outcome)

\* a flagged wallet sits in a cluster whose mean is exactly 0.10 and keeps
\* base * 0.7, beside a cluster above 0.10 and one below 0.01
C18_Witness ==
    /\ pc = "risk:return"
    /\ \E i \in DOMAIN loc.scores_df :
          /\ args.outcome.anomaly_mask[i]
          /\ Cardinality(ClusterOf(i)) = 2
          /\ 10 * FrequencySum(ClusterOf(i)) = 2 * SCALE
          /\ loc.scores_df[i].risk_adjusted_score * 10
                = args.scores_df[i].base_score * RiskDen * 7
    /\ \E i \in DOMAIN loc.scores_df : ClusterHundredths(i) = 80
    /\ \E i \in DOMAIN loc.scores_df : ClusterHundredths(i) = 110

\* C22: a wallet that is flagged or sits in a cluster with a mean
\* liquidation_frequency above 0.10, and gets no factor 1.1, has a
\* risk_adjusted_score that is not above its base_score.
C22_PenaltiesNeverRaise ==
    pc = "risk:return" =>
        \A i \in DOMAIN loc.scores_df :
            ((args.outcome.anomaly_mask[i] \/ ClusterHundredths(i) = 80)
                /\ ClusterHundredths(i) # 110)
            => loc.scores_df[i].risk_adjusted_score
                  <= loc.scores_df[i].base_score * RiskDen

----------------------------------------------------------------------------
(* DeFiCreditScorer._normalize_scores in three steps: the percentile clip,  *)
(* the rescale, the overrides.  args.scores_df is the table handed in; loc  *)
(* holds scores_clipped (times 100) and normalized_scores.  The function is *)
(* taken on its own, for tables of one row and more.                        *)

\* the most rows of a table drawn
MaxRescaled == 5

\* risk-adjusted rows drawn: base scores below 200, at 200, between, at 800
\* and above 800, unadjusted, times 0.7 * 0.8 or times 1.1
RescaleKinds ==
    << [base |-> 150, mult |-> 100], [base |-> 200, mult |-> 100],
       [base |-> 500, mult |-> 56],  [base |-> 500, mult |-> 100],
       [base |-> 800, mult |-> 56],  [base |-> 800, mult |-> 110],
       [base |-> 900, mult |-> 56],  [base |-> 900, mult |-> 100] >>

RescaleTable(ks) ==
    [i \in DOMAIN ks |->
        [wallet_address |-> i,
         base_score |-> RescaleKinds[ks[i]].base * PSCALE,
         risk_adjusted_score |->
             (RescaleKinds[ks[i]].base * PSCALE * RescaleKinds[ks[i]].mult * RiskDen) \div 100]]

InitRescale ==
    /\ pc = "normalize:clip"
    /\ \E n \in 1..MaxRescaled :
         \E ks \in NonDecreasing(n, 1, Len(RescaleKinds)), rev \in BOOLEAN :
           args = [scores_df |-> RescaleTable(IF rev THEN Reverse(ks) ELSE ks)]
    /\ loc = Idle
    /\ PipeIdle

\* q1, q99 = np.percentile(scores, [1, 99]); scores_clipped = np.clip(...)
RescaleClip ==
    /\ pc = "normalize:clip"
    /\ loc' = [scores_clipped |->
                 ScoresClipped100([i \in DOMAIN args.scores_df |->
                                      args.scores_df[i].risk_adjusted_score])]
    /\ pc' = "normalize:rescale"
    /\ UNCHANGED <<args, pipeVars>>

\* the if max_score > min_score ... else np.full_like(scores_clipped, 500)
RescaleScale ==
    /\ pc = "normalize:rescale"
    /\ loc' = [scores_clipped |-> loc.scores_clipped,
               normalized_scores |->
                 NormalizedScores([i \in DOMAIN args.scores_df |->
                                      args.scores_df[i].risk_adjusted_score])]
    /\ pc' = "normalize:override"
    /\ UNCHANGED <<args, pipeVars>>

\* the loop over scores_df.iterrows(), credit_score and score_category
RescaleOverride ==
    /\ pc = "normalize:override"
    /\ loc' = [scores_clipped |-> loc.scores_clipped,
               normalized_scores |-> loc.normalized_scores,
               scores_df |->
                 [i \in DOMAIN args.scores_df |->
                     [wallet_address |-> args.scores_df[i].wallet_address,
                      base_score |-> args.scores_df[i].base_score,
                      risk_adjusted_score |-> args.scores_df[i].risk_adjusted_score,
                      credit_score |-> FinalScore(loc.normalized_scores[i], args.scores_df[i]),
                      score_category |->
                          _categorize_score(FinalScore(loc.normalized_scores[i],
                                                       args.scores_df[i]))]]]
    /\ pc' = "normalize:done"
    /\ UNCHANGED <<args, pipeVars>>

NextRescale ==
    \/ RescaleClip
    \/ RescaleScale
    \/ RescaleOverride

SpecRescale == InitRescale /\ [][NextRescale]_vars

\* C19: when the clipped scores are not all equal, normalized_scores is the
\* linear rescale of the clipped range, the minimum going to 0 and the
\* maximum to 1000; when they are all equal, a single wallet included, every
\* wallet is assigned 500.  The three steps together are _normalize_scores.
C19_Rescale ==
    /\ pc \in {"normalize:override", "normalize:done"} =>
          LET clipped   == loc.scores_clipped
              min_score == SetMin(Range(clipped))
              max_score == SetMax(Range(clipped))
          IN  \A i \in DOMAIN clipped :
                 IF min_score # max_score
                 THEN /\ loc.normalized_scores[i]
                            = Rat(10 * (clipped[i] - min_score), max_score - min_score)
                      /\ clipped[i] = min_score => loc.normalized_scores[i].n = 0
                      /\ clipped[i] = max_score =>
                            /\ RatGe(loc.normalized_scores[i], 1000)
                            /\ RatLe(loc.normalized_scores[i], 1000)
                 ELSE loc.normalized_scores[i] = Points(500)
    /\ pc = "normalize:done" => loc.scores_df = _normalize_scores(args.scores_df)

\* a table whose percentile clip moved both ends has been rescaled
C19_Witness ==
    /\ pc = "normalize:done"
    /\ Len(args.scores_df) = MaxRescaled
    /\ \E i \in DOMAIN args.scores_df :
          loc.scores_clipped[i] > 100 * args.scores_df[i].risk_adjusted_score
    /\ \E i \in DOMAIN args.scores_df :
          loc.scores_clipped[i] < 100 * args.scores_df[i].risk_adjusted_score
    /\ \E i \in DOMAIN args.scores_df : loc.normalized_scores[i].n = 0
    /\ \E i \in DOMAIN args.scores_df : RatGe(loc.normalized_scores[i], 1000)

\* credit_score x is not below credit_score y
RatNotBelow(x, y) ==
    IF x.d = y.d THEN x.n >= y.n ELSE x.n * y.d >= y.n * x.d

\* base_score in [200, 800]: neither override applies
NoOverride(row) == 200 * PSCALE <= row.base_score /\ row.base_score <= 800 * PSCALE

\* C23: of two wallets of a run with base scores in [200, 800], the one
\* whose risk_adjusted_score is not lower has a credit_score that is not
\* lower.
C23_OrderPreserved ==
    pc = "normalize:done" =>
        \A i \in DOMAIN loc.scores_df, j \in DOMAIN loc.scores_df :
            (/\ NoOverride(loc.scores_df[i])
             /\ NoOverride(loc.scores_df[j])
             /\ loc.scores_df[i].risk_adjusted_score
                  >= loc.scores_df[j].risk_adjusted_score)
            => RatNotBelow(loc.scores_df[i].credit_score, loc.scores_df[j].credit_score)

\* wallets with base scores of exactly 200 and exactly 800 stand in a table
\* beside an overridden wallet; the one with the higher risk-adjusted score
\* has the strictly higher credit score
C23_Witness ==
    /\ pc = "normalize:done"
    /\ \E i \in DOMAIN loc.scores_df, j \in DOMAIN loc.scores_df,
          k \in DOMAIN loc.scores_df :
          /\ loc.scores_df[i].base_score = 800 * PSCALE
          /\ loc.scores_df[j].base_score = 200 * PSCALE
          /\ loc.scores_df[i].risk_adjusted_score > loc.scores_df[j].risk_adjusted_score
          /\ ~RatNotBelow(loc.scores_df[j].credit_score, loc.scores_df[i].credit_score)
          /\ ~NoOverride(loc.scores_df[k])
          /\ loc.scores_df[k].credit_score # loc.normalized_scores[k]

----------------------------------------------------------------------------
(* One score_wallets run, call by call.  loc.calls is the sequence of the   *)
(* calls made on the scaler, the two estimators and the normalizer, each    *)
(* with the matrix it was made on: X and the scaler parameters that scale   *)
(* it.  loc.anomaly_mask is the local of _apply_risk_adjustments.           *)

\* a run that normalizes straight after the base scores
StageAfterNormalizeFirst(stage) ==
    CASE stage = "extract"   -> "stages:base_fit"
      [] stage = "base"      -> "stages:normalize"
      [] stage = "normalize" -> "stages:anomaly"
      [] stage = "risk"      -> "stages:merge"
      [] stage = "merge"     -> "stages:return"

\* where score_wallets goes on after a stage
StageAfter(stage) ==
    CASE stage = "extract"   -> "stages:base_fit"
      [] stage = "base"      -> "stages:anomaly"
      [] stage = "risk"      -> "stages:normalize"
      [] stage = "normalize" -> "stages:merge"
      [] stage = "merge"     -> "stages:return"

Call(name, scaler, X) == [call |-> name, scaler |-> scaler, X |-> X]

InitStages ==
    /\ pc = "stages:extract"
    /\ args = Idle
    /\ loc = [calls |-> <<>>, anomaly_mask |-> <<>>]
    /\ \E n \in n_clusters..MaxWallets :
         \E ps \in NonDecreasing(n, 1, Len(Profiles)) :
           df = PopulationRows(ps, n)
    /\ features_df = <<>>
    /\ scores_df = <<>>
    /\ scorer = [scaler |-> RobustScaler, fit_predict |-> {}]
    /\ run = 1
    /\ results = <<>>

\* features_df = self.feature_engineer.extract_features(df)
StageExtract ==
    /\ pc = "stages:extract"
    /\ features_df' = extract_features(df)
    /\ pc' = StageAfter("extract")
    /\ UNCHANGED <<args, loc, df, scores_df, scorer, run, results>>

\* X_scaled = self.scaler.fit_transform(X)
StageBaseFit ==
    /\ pc = "stages:base_fit"
    /\ LET X      == FillX(features_df)
           fitted == fit_transform(scorer.scaler, X)
       IN  /\ scorer' = [scorer EXCEPT !.scaler = fitted]
           /\ loc' = [loc EXCEPT !.calls =
                         Append(@, Call("scaler.fit_transform", fitted, X))]
    /\ pc' = "stages:base_score"
    /\ UNCHANGED <<args, df, features_df, scores_df, run, results>>

\* the loop over X_scaled_df.iterrows() and the result table
StageBaseScore ==
    /\ pc = "stages:base_score"
    /\ scores_df' = _calculate_base_scores(scorer.scaler, features_df)
    /\ pc' = StageAfter("base")
    /\ UNCHANGED <<args, loc, df, features_df, scorer, run, results>>

\* anomaly_scores = self.anomaly_detector.fit_predict(self.scaler.transform(X))
\* and the *= 0.7 on the flagged rows
StageAnomaly ==
    /\ pc = "stages:anomaly"
    /\ Len(features_df) >= n_clusters
    /\ LET X == FillX(features_df)
       IN  \E mask \in {o.anomaly_mask : o \in FitPredictOutcomes(X)} :
             /\ loc' = [calls |-> loc.calls
                           \o << Call("scaler.transform", scorer.scaler, X),
                                 Call("anomaly_detector.fit_predict", scorer.scaler, X) >>,
                        anomaly_mask |-> mask]
             /\ scores_df' = [i \in DOMAIN scores_df |->
                   [wallet_address |-> scores_df[i].wallet_address,
                    base_score |-> scores_df[i].base_score,
                    risk_adjusted_score |->
                        (scores_df[i].base_score * RiskDen
                           * (IF mask[i] THEN 7 ELSE 10)) \div 10]]
    /\ pc' = "stages:cluster"
    /\ UNCHANGED <<args, df, features_df, scorer, run, results>>

\* risk_clusters = self.risk_clusterer.fit_predict(self.scaler.transform(X))
\* and the loop over the clusters
StageCluster ==
    /\ pc = "stages:cluster"
    /\ LET X == FillX(features_df)
       IN  \E outcome \in {o \in FitPredictOutcomes(X) :
                              o.anomaly_mask = loc.anomaly_mask} :
             /\ loc' = [loc EXCEPT !.calls = @
                           \o << Call("scaler.transform", scorer.scaler, X),
                                 Call("risk_clusterer.fit_predict", scorer.scaler, X) >>]
             /\ scores_df' = [i \in DOMAIN scores_df |->
                   [scores_df[i] EXCEPT !.risk_adjusted_score =
                       (@ * ClusterTenths(features_df, outcome.risk_clusters,
                                          outcome.risk_clusters[i])) \div 10]]
    /\ pc' = StageAfter("risk")
    /\ UNCHANGED <<args, df, features_df, scorer, run, results>>

\* scores_df = self._normalize_scores(scores_df)
StageNormalize ==
    /\ pc = "stages:normalize"
    /\ scores_df' = _normalize_scores(scores_df)
    /\ loc' = [loc EXCEPT !.calls =
                  Append(@, Call("_normalize_scores", scorer.scaler, FillX(features_df)))]
    /\ pc' = StageAfter("normalize")
    /\ UNCHANGED <<args, df, features_df, scorer, run, results>>

\* result_df = scores_df.merge(...); return result_df
StageMerge ==
    /\ pc = "stages:merge"
    /\ results' = Append(results, MergeLeft(scores_df, features_df))
    /\ pc' = StageAfter("merge")
    /\ UNCHANGED <<args, loc, df, features_df, scores_df, scorer, run>>

NextStages ==
    \/ StageExtract
    \/ StageBaseFit
    \/ StageBaseScore
    \/ StageAnomaly
    \/ StageCluster
    \/ StageNormalize
    \/ StageMerge

SpecStages == InitStages /\ [][NextStages]_vars

\* the positions of the calls of one name
CallsOf(name) == {i \in DOMAIN loc.calls : loc.calls[i].call = name}

\* the run has got as far as pc
StagesDone ==
    CASE pc = "stages:extract"    -> 0
      [] pc = "stages:base_fit"   -> 1
      [] pc = "stages:base_score" -> 2
      [] pc = "stages:anomaly"    -> 3
      [] pc = "stages:cluster"    -> 4
      [] pc = "stages:normalize"  -> 5
      [] pc = "stages:merge"      -> 6
      [] pc = "stages:return"     -> 7

\* C21: in one run the scaler is fitted once, in the base stage and on the
\* whole feature matrix, before any transform; each estimator is fitted
\* once, after the base scores and before the normalization, on the matrix
\* the base scorer scaled; the normalization starts only when every row
\* carries its anomaly and its cluster factor.
C21_StageOrder ==
    LET fits      == CallsOf("scaler.fit_transform")
        anomaly   == CallsOf("anomaly_detector.fit_predict")
        cluster   == CallsOf("risk_clusterer.fit_predict")
        normalize == CallsOf("_normalize_scores")
    IN  /\ Cardinality(fits) = (IF StagesDone >= 2 THEN 1 ELSE 0)
        /\ Cardinality(anomaly) = (IF StagesDone >= 4 THEN 1 ELSE 0)
        /\ Cardinality(cluster) = (IF StagesDone >= 5 THEN 1 ELSE 0)
        /\ Cardinality(normalize) = (IF StagesDone >= 6 THEN 1 ELSE 0)
        /\ \A i \in fits :
              /\ i = 1
              /\ Len(loc.calls[i].X) = Len(GroupKeys(df))
              /\ loc.calls[i].X = FillX(features_df)
        /\ \A i \in DOMAIN loc.calls :
              /\ i > 1 => fits # {}
              /\ loc.calls[i].X = loc.calls[1].X
              /\ loc.calls[i].scaler = loc.calls[1].scaler
        /\ \A i \in anomaly \cup cluster :
              /\ \A j \in normalize : i < j
              /\ \A k \in DOMAIN scores_df : "base_score" \in DOMAIN scores_df[k]
        /\ \A i \in anomaly : \A j \in cluster : i < j
        /\ pc = "stages:normalize" =>
              \E o \in FitPredictOutcomes(FillX(features_df)) :
                 scores_df = _apply_risk_adjustments(
                                 _calculate_base_scores(scorer.scaler, features_df),
                                 features_df, o)

\* a run has returned in which a wallet was flagged and a cluster factor
\* other than 1 was applied
C21_Witness ==
    /\ pc = "stages:return"
    /\ Len(loc.calls) = 6
    /\ \E i \in DOMAIN loc.anomaly_mask : loc.anomaly_mask[i]
    /\ \E i \in DOMAIN scores_df :
          /\ ~loc.anomaly_mask[i]
          /\ scores_df[i].risk_adjusted_score # scores_df[i].base_score * RiskDen

----------------------------------------------------------------------------
(* The extractors on wallets that use the whole action vocabulary of the    *)
(* loader: one transaction a day, one per action of a set of actions.       *)

\* the actions AaveDataLoader._estimate_gas_used knows and its default, with
\* the gas estimate in units of 10000
ActionVocabulary ==
    << [action |-> "deposit",          gas_used |-> 15],
       [action |-> "borrow",           gas_used |-> 18],
       [action |-> "repay",            gas_used |-> 16],
       [action |-> "redeemunderlying", gas_used |-> 17],
       [action |-> "liquidationcall",  gas_used |-> 22],
       [action |-> "withdraw",         gas_used |-> 17],
       [action |-> "flashloan",        gas_used |-> 20],
       [action |-> "unknown",          gas_used |-> 15] >>

\* one row per action of the set picked (positions in ActionVocabulary), all
\* of amount 5 or of growing amounts
VocabularyRows(wallet_address, picked, equal) ==
    LET ks == SortSet(picked)
    IN  [k \in DOMAIN ks |->
            [wallet_address |-> wallet_address,
             action    |-> ActionVocabulary[ks[k]].action,
             asset     |-> "USDC",
             amount    |-> IF equal THEN 5 ELSE k,
             gas_used  |-> ActionVocabulary[ks[k]].gas_used,
             timestamp |-> HoursPerDay * (k - 1)]]

InitVocabulary ==
    /\ pc = "features:basic"
    /\ \E picked \in (SUBSET DOMAIN ActionVocabulary) \ {{}}, equal \in BOOLEAN :
         args = [wallet_address |-> 1, df |-> VocabularyRows(1, picked, equal)]
    /\ loc = [wallet_address |-> 1]
    /\ PipeIdle

SpecVocabulary == InitVocabulary /\ [][NextFeatures]_vars

\* C24: action_diversity_score and transaction_complexity_score of every
\* wallet lie in [0, 1].
C24_NetworkFeaturesUnit ==
    pc = "features:return" =>
        /\ IsFinite(loc.action_diversity_score)
        /\ 0 <= loc.action_diversity_score.v
        /\ loc.action_diversity_score.v <= SCALE
        /\ IsFinite(loc.transaction_complexity_score)
        /\ 0 <= loc.transaction_complexity_score.v
        /\ loc.transaction_complexity_score.v <= SCALE

====
